---- MODULE Spec2Model ----
(***************************************************************************)
(* A model of rump's matching and selection engine: Rules (rump/rule.py),  *)
(* Router (rump/router/__init__.py) and the dynamic backends               *)
(* (rump/router/redis.py, zookeeper.py, etcd.py).                          *)
(*                                                                         *)
(* Python values are modelled as follows.  None is the record None below   *)
(* (the string "None" where the other values are strings).  A Rule or      *)
(* CompiledRule object is a record [oid, out, upstream]: oid is            *)
(* the object's identity (Rule defines __eq__ but no __hash__, so the      *)
(* `disabled` set hashes by identity), out is what evaluating the rule's   *)
(* expression on the request does, upstream is the Upstream it carries.    *)
(* An Upstream is the sequence of its selections.  A string of one of the  *)
(* DSLs, a JSON document and the text of a zookeeper node are records of   *)
(* what the text says; a Router is the record of its fields.               *)
(***************************************************************************)
EXTENDS Integers, Sequences, FiniteSets, TLC

VARIABLES
  rules,    \* the Rules object: [rules, disabled, compile, auto_disable]
  ret,      \* what the last operation on rules did
  since,    \* the rules disabled and not enabled again since the last match
  routers,  \* the Router objects A and B, bound to one remote location
  store,    \* the remote location: a redis or etcd key, two zookeeper nodes
  last,     \* what the last load or save did
  saved,    \* the dynamic fields of the last save, while the store holds it
  call,     \* the match_upstream call of the request thread of B
  chan,     \* redis: the messages published and not yet handled
  sub,      \* redis: whether B's watcher is subscribed to the channel
  pend,     \* redis: the step A's save is at, and its text
  notified, \* the saves published while B's watcher was subscribed
  link,     \* the connection of B's dynamic and its etcd watcher thread
  probe,    \* an expression, a request, and what was done with them
  pick,     \* an Upstream object, and what was done with it
  served,   \* the routers of the settings, a request, and how it was served
  io        \* a Rules object, a text of rule lines, and what a load did

rulesVars == << rules, ret, since >>

dynVars == << routers, store, last, saved >>

watchVars == << chan, sub, pend, notified >>

extVars == << link, probe, pick, served, io >>

vars == << rules, ret, since, routers, store, last, saved, call,
           chan, sub, pend, notified, link, probe, pick, served, io >>

\* ------------------------------------------------------------------ bounds

\* Longest rule list of a Rules object.
MaxRules == 3

\* Python's None among objects, and among strings.
None == [type |-> "NoneType"]

NoneStr == "None"

\* ---------------------------------------------------------------- upstream

\* rump.upstream.Selection(server, weight) as produced by the upstream DSL.
Selection(server, weight) == [server |-> server, weight |-> weight]

\* The Upstream a rule of the DSL `... => http://s<k>` carries: the grammar
\* is a delimitedList of at least one selection, the default weight is 1.
Upstream(selections) == [type |-> "Upstream", selections |-> selections]

UpstreamOf(k) == Upstream(<< Selection(<<"http", k>>, 1) >>)

\* Python truth value of what Rule.match returns: None is false, and an
\* Upstream (a MutableSequence with __len__) is true iff it is not empty.
Truthy(v) == v.type # "NoneType" /\ Len(v.selections) > 0

\* ------------------------------------------------------------------- rules

\* What evaluating a rule's expression on the request does: a true value, a
\* false value, an exception derived from StandardError (TypeError,
\* KeyError, ...), or any other Exception (as the tests' Exception('boom')).
Outcomes == {"true", "false", "StandardError", "Exception"}

\* The k-th rule object of a list, a Rule or a CompiledRule.
RuleObj(cls, k, out) ==
  [type |-> cls, oid |-> k, out |-> out, upstream |-> UpstreamOf(k)]

\* Every rule list of at most MaxRules distinct rule objects of a class.
RuleLists(cls) ==
  UNION { { [k \in 1..n |-> RuleObj(cls, k, o[k])] : o \in [1..n -> Outcomes] }
          : n \in 0..MaxRules }

\* Rules(rules, compile=..., auto_disable=...): the compile setter makes
\* every rule a CompiledRule when compile is set; no rule is disabled.
NewRules(compile, auto_disable) ==
  { [rules |-> rs, disabled |-> {}, compile |-> compile,
     auto_disable |-> auto_disable]
    : rs \in RuleLists(IF compile THEN "CompiledRule" ELSE "Rule") }

\* Rule.match / CompiledRule.match_context: the upstream when the expression
\* is true, None when it is false; an evaluation error propagates.
RuleMatch(rule) ==
  CASE rule.out = "true"  -> [kind |-> "value", value |-> rule.upstream]
    [] rule.out = "false" -> [kind |-> "value", value |-> None]
    [] OTHER              -> [kind |-> "raise", value |-> rule.out]

CompiledRuleMatchContext(rule) == RuleMatch(rule)

\* The outcome of a Rules.match call.
Returned(v, dis, ev) ==
  [kind |-> "return", value |-> v, disabled |-> dis, evaluated |-> ev]

Raised(e, dis, ev) ==
  [kind |-> "raise", value |-> e, disabled |-> dis, evaluated |-> ev]

\* Rules._match with the handler around the whole loop: an error that is not
\* raised ends the loop.
RECURSIVE RulesMatch_Abort(_, _, _, _, _)
RulesMatch_Abort(rs, i, dis, error, ev) ==
  IF i = Len(rs) + 1 THEN Returned(None, dis, ev)
  ELSE IF rs[i].oid \in dis THEN RulesMatch_Abort(rs, i + 1, dis, error, ev)
  ELSE
    LET m == RuleMatch(rs[i])
        ev2 == Append(ev, i)
    IN  CASE m.kind = "value" ->
               IF Truthy(m.value) THEN Returned(m.value, dis, ev2)
               ELSE RulesMatch_Abort(rs, i + 1, dis, error, ev2)
          [] m.kind = "raise" /\ m.value = "StandardError" ->
               Raised(m.value, dis, ev2)
          [] OTHER ->
               IF error = "raise" THEN Raised(m.value, dis, ev2)
               ELSE Returned(None,
                             IF error = "disable" THEN dis \cup {rs[i].oid}
                             ELSE dis,
                             ev2)

\* Rules._match disabling the rule before it looks at the error mode.
RECURSIVE RulesMatch_DisableFirst(_, _, _, _, _)
RulesMatch_DisableFirst(rs, i, dis, error, ev) ==
  IF i = Len(rs) + 1 THEN Returned(None, dis, ev)
  ELSE IF rs[i].oid \in dis
  THEN RulesMatch_DisableFirst(rs, i + 1, dis, error, ev)
  ELSE
    LET m == RuleMatch(rs[i])
        ev2 == Append(ev, i)
    IN  CASE m.kind = "value" ->
               IF Truthy(m.value) THEN Returned(m.value, dis, ev2)
               ELSE RulesMatch_DisableFirst(rs, i + 1, dis, error, ev2)
          [] m.kind = "raise" /\ m.value = "StandardError" ->
               Raised(m.value, dis, ev2)
          [] OTHER ->
               IF error = "raise"
               THEN Raised(m.value, dis \cup {rs[i].oid}, ev2)
               ELSE RulesMatch_DisableFirst(rs, i + 1,
                               IF error = "disable" THEN dis \cup {rs[i].oid}
                               ELSE dis,
                               error, ev2)

\* Rules._match from index i (1-based here) with the disabled set dis; ev is
\* the sequence of the indices evaluated so far.
RECURSIVE RulesMatch(_, _, _, _, _)
RulesMatch(rs, i, dis, error, ev) ==
  IF i = Len(rs) + 1 THEN Returned(None, dis, ev)
  ELSE IF rs[i].oid \in dis THEN RulesMatch(rs, i + 1, dis, error, ev)
  ELSE
    LET m == RuleMatch(rs[i])
        ev2 == Append(ev, i)
    IN  CASE m.kind = "value" ->
               IF Truthy(m.value) THEN Returned(m.value, dis, ev2)
               ELSE RulesMatch(rs, i + 1, dis, error, ev2)
          [] m.kind = "raise" /\ m.value = "StandardError" ->
               Raised(m.value, dis, ev2)
          [] OTHER ->
               IF error = "raise" THEN Raised(m.value, dis, ev2)
               ELSE RulesMatch(rs, i + 1,
                               IF error = "disable" THEN dis \cup {rs[i].oid}
                               ELSE dis,
                               error, ev2)

\* Rules._match_compiled without the test `self[i] not in self.disabled`.
RECURSIVE RulesMatchCompiled_NoSkip(_, _, _, _, _)
RulesMatchCompiled_NoSkip(rs, i, dis, error, ev) ==
  IF i = Len(rs) + 1 THEN Returned(None, dis, ev)
  ELSE
    LET m == CompiledRuleMatchContext(rs[i])
        ev2 == Append(ev, i)
    IN  CASE m.kind = "value" ->
               IF Truthy(m.value) THEN Returned(m.value, dis, ev2)
               ELSE RulesMatchCompiled_NoSkip(rs, i + 1, dis, error, ev2)
          [] m.kind = "raise" /\ m.value = "StandardError" ->
               Raised(m.value, dis, ev2)
          [] OTHER ->
               IF error = "raise" THEN Raised(m.value, dis, ev2)
               ELSE RulesMatchCompiled_NoSkip(rs, i + 1,
                               IF error = "disable" THEN dis \cup {rs[i].oid}
                               ELSE dis,
                               error, ev2)

\* Rules._match_compiled with `i += 2` in the handler: the rule after one
\* that raised is passed over.
RECURSIVE RulesMatchCompiled_SkipNext(_, _, _, _, _)
RulesMatchCompiled_SkipNext(rs, i, dis, error, ev) ==
  IF i >= Len(rs) + 1 THEN Returned(None, dis, ev)
  ELSE IF rs[i].oid \in dis
       THEN RulesMatchCompiled_SkipNext(rs, i + 1, dis, error, ev)
  ELSE
    LET m == CompiledRuleMatchContext(rs[i])
        ev2 == Append(ev, i)
    IN  CASE m.kind = "value" ->
               IF Truthy(m.value) THEN Returned(m.value, dis, ev2)
               ELSE RulesMatchCompiled_SkipNext(rs, i + 1, dis, error, ev2)
          [] m.kind = "raise" /\ m.value = "StandardError" ->
               Raised(m.value, dis, ev2)
          [] OTHER ->
               IF error = "raise" THEN Raised(m.value, dis, ev2)
               ELSE RulesMatchCompiled_SkipNext(rs, i + 2,
                               IF error = "disable" THEN dis \cup {rs[i].oid}
                               ELSE dis,
                               error, ev2)

\* Rules._match_compiled: the same loop over match_context.
RECURSIVE RulesMatchCompiled(_, _, _, _, _)
RulesMatchCompiled(rs, i, dis, error, ev) ==
  IF i = Len(rs) + 1 THEN Returned(None, dis, ev)
  ELSE IF rs[i].oid \in dis THEN RulesMatchCompiled(rs, i + 1, dis, error, ev)
  ELSE
    LET m == CompiledRuleMatchContext(rs[i])
        ev2 == Append(ev, i)
    IN  CASE m.kind = "value" ->
               IF Truthy(m.value) THEN Returned(m.value, dis, ev2)
               ELSE RulesMatchCompiled(rs, i + 1, dis, error, ev2)
          [] m.kind = "raise" /\ m.value = "StandardError" ->
               Raised(m.value, dis, ev2)
          [] OTHER ->
               IF error = "raise" THEN Raised(m.value, dis, ev2)
               ELSE RulesMatchCompiled(rs, i + 1,
                               IF error = "disable" THEN dis \cup {rs[i].oid}
                               ELSE dis,
                               error, ev2)

\* The default error mode with its two cases exchanged.
ErrorMode_Swapped(error, auto_disable) ==
  IF error = NoneStr
  THEN (IF auto_disable = FALSE THEN "disable" ELSE "suppress")
  ELSE error

\* The error mode Rules.match uses when the caller passes error.
ErrorMode(error, auto_disable) ==
  IF error = NoneStr
  THEN (IF auto_disable = FALSE THEN "suppress" ELSE "disable")
  ELSE error

\* Rules.match(request, error) of a Rules object self = [rules, disabled,
\* compile, auto_disable].
Match(self, error) ==
  LET mode == ErrorMode(error, self.auto_disable)
  IN  IF mode \notin {"raise", "disable", "suppress"}
      THEN Raised("ValueError", self.disabled, << >>)
      ELSE IF self.compile
           THEN RulesMatchCompiled(self.rules, 1, self.disabled, mode, << >>)
           ELSE RulesMatch(self.rules, 1, self.disabled, mode, << >>)

\* Indexing that takes no negative index.
GetItem_NoNegative(rs, i) ==
  IF i >= 0 /\ i < Len(rs) THEN rs[i + 1]
  ELSE [type |-> "IndexError"]

\* Rules.__getitem__: Python list indexing, negative indices count from the
\* end; an IndexError when out of range.
GetItem(rs, i) ==
  IF i >= 0 /\ i < Len(rs) THEN rs[i + 1]
  ELSE IF i < 0 /\ i >= -Len(rs) THEN rs[Len(rs) + i + 1]
  ELSE [type |-> "IndexError"]

\* Rules.disable(i): self.disabled.add(self[i]).
Disable(rs, dis, i) ==
  LET r == GetItem(rs, i)
  IN  IF r.type = "IndexError" THEN [kind |-> "IndexError", disabled |-> dis]
      ELSE [kind |-> "ok", disabled |-> dis \cup {r.oid}]

\* Rules.enable(i): self.disabled.remove(self[i]); set.remove raises
\* KeyError for a rule that is not in the set.
Enable(rs, dis, i) ==
  LET r == GetItem(rs, i)
  IN  IF r.type = "IndexError" THEN [kind |-> "IndexError", disabled |-> dis]
      ELSE IF r.oid \notin dis THEN [kind |-> "KeyError", disabled |-> dis]
      ELSE [kind |-> "ok", disabled |-> dis \ {r.oid}]

\* Rules.disable_all: self.disabled = set(self).
DisableAll(rs) == { rs[k].oid : k \in 1..Len(rs) }

\* Rules.enable_all: self.disabled.clear().
EnableAll == {}

\* ------------------------------------------------------ strings of the DSLs

\* str(upstream) and parser.for_upstream()(text).
UpstreamStr(u) == [type |-> "str", selections |-> u.selections]

ParseUpstream(text) == Upstream(text.selections)

\* str(rule), of a Rule and of a CompiledRule: '<expression> => <upstream>'.
\* The text keeps neither the object nor its class.
RuleStr(rule) ==
  [type |-> "str", exp |-> rule.out, upstream |-> UpstreamStr(rule.upstream)]

\* parser.for_rule(request_type)(text): a new Rule, here the k-th of its list.
ParseRule(text, k) ==
  [type |-> "Rule", oid |-> k, out |-> text.exp,
   upstream |-> ParseUpstream(text.upstream)]

\* re.compile(pattern).
Regex(pattern) == [type |-> "regex", pattern |-> pattern]

\* Rule.__eq__ / CompiledRule.__eq__: same expression and same upstream.
RuleEq(a, b) == a.out = b.out /\ a.upstream = b.upstream

\* Rules.__eq__: the lists of rules are equal, rule by rule.
RulesEq(x, y) ==
  /\ Len(x.rules) = Len(y.rules)
  /\ \A k \in 1..Len(x.rules) : RuleEq(x.rules[k], y.rules[k])

\* Rules(list, compile=..., auto_disable=...) of a list of Rule objects: the
\* compile setter replaces every rule by its compiled version when compile
\* is set; the disabled set of the new object is empty.
RulesOf(list, compile, auto_disable) ==
  [rules |-> [k \in 1..Len(list) |->
                [list[k] EXCEPT !.oid = k,
                                !.type = IF compile THEN "CompiledRule" ELSE @]],
   disabled |-> {}, compile |-> compile, auto_disable |-> auto_disable]

\* ------------------------------------------------------------------ router

\* The fields of Router tagged 'dynamic', and the others.
DynamicFields ==
  {"enabled", "hosts", "compile_rules", "auto_disable_rules",
   "default_upstream", "overrides"}

StaticFields == {"name", "request_type", "rules", "dynamic"}

\* JSON null.
Null == [type |-> "null"]

\* pilo.source.UnionSource(srcs): a field is read from the first source
\* that has it; the last source, the router itself, has every field.
RECURSIVE UnionSource(_, _)
UnionSource(srcs, f) ==
  IF Len(srcs) = 1 \/ f \in DOMAIN Head(srcs).data
  THEN [kind |-> Head(srcs).kind, value |-> Head(srcs).data[f]]
  ELSE UnionSource(Tail(srcs), f)

\* The Boolean fields: a JSON boolean, the text str(bool) of a zookeeper
\* config, or the value of the local router.
ParseBoolean(p) ==
  IF p.kind = "config" THEN p.value = "True" ELSE p.value

\* A string that re.compile rejects, as the pattern of test_router.py, and a
\* line that the rule grammar rejects.
InvalidPattern == "[<@"

JunkText == [type |-> "junk"]

\* Whether the parse hook of Router.hosts reports an error: a string that is
\* no regular expression is invalid; a regex (local value) is kept.
HostsInvalid(p) ==
  CASE p.kind = "form"   -> FALSE
    [] p.kind = "config" ->
         \E k \in 1..Len(p.value.parts) : p.value.parts[k] = InvalidPattern
    [] OTHER             -> \E k \in 1..Len(p.value) : p.value[k] = InvalidPattern

\* Router.hosts: a string is compiled, a regex (local value) is kept.
ParseHosts(p) ==
  CASE p.kind = "form"   -> p.value
    [] p.kind = "config" ->
         [k \in 1..Len(p.value.parts) |-> Regex(p.value.parts[k])]
    [] OTHER             -> [k \in 1..Len(p.value) |-> Regex(p.value[k])]

\* Router.default_upstream: None and an Upstream are kept, a string is
\* parsed.
ParseDefaultUpstream(p) ==
  CASE p.kind = "form"   -> p.value
    [] p.kind = "config" -> ParseUpstream(p.value)
    [] OTHER             -> IF p.value.type = "null" THEN None
                            ELSE ParseUpstream(p.value)

\* Router.rules: every element is a string and is parsed.
ParseRules(texts) == [k \in 1..Len(texts) |-> ParseRule(texts[k], k)]

\* Router.overrides: a Rule (local value) is kept, anything else goes to the
\* rule parser, which takes a string: the CompiledRule of a local value has
\* no expandtabs and the parser raises AttributeError; a string that is no
\* rule is reported invalid, which error='raise' raises.
ParseOverrides(p) ==
  LET elems == IF p.kind = "form" THEN p.value.rules ELSE p.value
  IN  IF p.kind = "form" /\ \E k \in 1..Len(elems) : elems[k].type # "Rule"
      THEN [kind |-> "raise", value |-> "AttributeError"]
      ELSE IF p.kind # "form" /\ \E k \in 1..Len(elems) : elems[k] = JunkText
      THEN [kind |-> "raise", value |-> "Invalid"]
      ELSE [kind |-> "ok",
            value |-> [k \in 1..Len(elems) |->
                         IF p.kind = "form" THEN elems[k]
                         ELSE ParseRule(elems[k], k)]]

\* form.map(src, tags=['dynamic'], error='raise') of a new Router form: the
\* dynamic fields and no other, the overrides munged into a Rules with the
\* flags mapped before them.
Mapped(srcs) ==
  LET flag(f) == ParseBoolean(UnionSource(srcs, f))
      o == ParseOverrides(UnionSource(srcs, "overrides"))
  IN  IF HostsInvalid(UnionSource(srcs, "hosts"))
      THEN [kind |-> "raise", value |-> "Invalid"]
      ELSE IF o.kind = "raise" THEN o
      ELSE [kind |-> "ok",
            value |->
              [enabled |-> flag("enabled"),
               hosts |-> ParseHosts(UnionSource(srcs, "hosts")),
               compile_rules |-> flag("compile_rules"),
               auto_disable_rules |-> flag("auto_disable_rules"),
               default_upstream |->
                 ParseDefaultUpstream(UnionSource(srcs, "default_upstream")),
               overrides |-> RulesOf(o.value, flag("compile_rules"),
                                     flag("auto_disable_rules"))]]

\* router.update(update): dict.update, the keys of update and no other.
Update(router, update) ==
  [f \in DOMAIN router |-> IF f \in DOMAIN update THEN update[f] ELSE router[f]]

\* router.filter('dynamic').
Filter(router) == [f \in DynamicFields |-> router[f]]

\* Router(name=..., rules=[...], dynamic={'_type_': ...}, **doc): a router
\* built from a document of strings, as a configuration file gives it.
NewRouter(name, doc, ruleTexts, type) ==
  LET d == Mapped(<< [kind |-> "json", data |-> doc] >>).value
  IN  [name |-> name,
       enabled |-> d.enabled,
       hosts |-> d.hosts,
       compile_rules |-> d.compile_rules,
       auto_disable_rules |-> d.auto_disable_rules,
       default_upstream |-> d.default_upstream,
       request_type |-> "rump.request:Request",
       rules |-> RulesOf(ParseRules(ruleTexts), d.compile_rules,
                         d.auto_disable_rules),
       overrides |-> d.overrides,
       dynamic |-> [type |-> type]]

\* The defaults of the dynamic fields, as a document.
DefaultDoc ==
  [enabled |-> TRUE, hosts |-> << >>, compile_rules |-> TRUE,
   auto_disable_rules |-> TRUE, default_upstream |-> Null, overrides |-> << >>]

\* ---------------------------------------------------------------- backends

Backends == {"redis", "zookeeper", "etcd"}

\* A key or a node that does not exist.
Missing == [type |-> "missing"]

\* The remote location before anything is written to it.
EmptyStore == [blob |-> Missing, config |-> Missing, overrides |-> Missing]

\* json.dumps(dynamic, default=_encode) of redis and rump.dumps of etcd: an
\* Upstream and a rule become their strings, a Rules the list of its rules,
\* a regex its pattern, None is null.
JsonDumps(dynamic) ==
  [enabled |-> dynamic.enabled,
   hosts |-> [k \in 1..Len(dynamic.hosts) |-> dynamic.hosts[k].pattern],
   compile_rules |-> dynamic.compile_rules,
   auto_disable_rules |-> dynamic.auto_disable_rules,
   default_upstream |->
     IF dynamic.default_upstream.type = "NoneType" THEN Null
     ELSE UpstreamStr(dynamic.default_upstream),
   overrides |-> [k \in 1..Len(dynamic.overrides.rules) |->
                    RuleStr(dynamic.overrides.rules[k])]]

\* Redis._set up to cli.set: the key holds the JSON text.
RedisSet(router, st) ==
  [st EXCEPT !.blob = [type |-> "json", data |-> JsonDumps(Filter(router))]]

\* Redis._src without the local source: the defaults of the fields stand in
\* for the values of the router.
RedisSrc_NoLocal(router, st) ==
  (IF st.blob.type = "missing" THEN << >>
   ELSE << [kind |-> "json", data |-> st.blob.data] >>)
  \o << [kind |-> "json", data |-> DefaultDoc] >>

\* Redis._src: the JSON text of the key when there is one, then the router.
RedisSrc(router, st) ==
  (IF st.blob.type = "missing" THEN << >>
   ELSE << [kind |-> "json", data |-> st.blob.data] >>)
  \o << [kind |-> "form", data |-> router] >>

\* EtcD._write and EtcD._src / _read: the same with rump.dumps and
\* rump.loads.
EtcdWrite(router, st) ==
  [st EXCEPT !.blob = [type |-> "json", data |-> JsonDumps(Filter(router))]]

EtcdSrc(router, st) ==
  (IF st.blob.type = "missing" THEN << >>
   ELSE << [kind |-> "json", data |-> st.blob.data] >>)
  \o << [kind |-> "form", data |-> router] >>

\* A zookeeper node created by ensure_path: no data, hence no section.
EmptyNode == [type |-> "ini", section |-> NoneStr, options |-> << >>]

\* Zookeeper._encode_config of the dynamic fields but overrides: str() of a
\* boolean, the patterns of the hosts joined by ', ', str() of the upstream.
\* None is none of the types it encodes.
ZookeeperEncodeConfig(router) ==
  [enabled |-> IF router.enabled THEN "True" ELSE "False",
   hosts |-> [type |-> "str",
              parts |-> [k \in 1..Len(router.hosts) |-> router.hosts[k].pattern]],
   compile_rules |-> IF router.compile_rules THEN "True" ELSE "False",
   auto_disable_rules |-> IF router.auto_disable_rules THEN "True" ELSE "False",
   default_upstream |-> UpstreamStr(router.default_upstream)]

\* Zookeeper._set_config: ensure_path, then a config of one section named
\* after the router; encoding None raises TypeError before the node is set.
ZookeeperSetConfig(router, st) ==
  LET ensured == [st EXCEPT !.config = IF @.type = "missing" THEN EmptyNode
                                       ELSE @]
  IN  IF router.default_upstream.type = "NoneType"
      THEN [kind |-> "raise", value |-> "TypeError", store |-> ensured]
      ELSE [kind |-> "ok", value |-> NoneStr,
            store |-> [st EXCEPT !.config =
                         [type |-> "ini", section |-> router.name,
                          options |-> ZookeeperEncodeConfig(router)]]]

\* Zookeeper._set_overrides: Rules.dumps, one line for each rule.
ZookeeperSetOverrides(router, st) ==
  [st EXCEPT !.overrides =
     [type |-> "text",
      lines |-> [k \in 1..Len(router.overrides.rules) |->
                   RuleStr(router.overrides.rules[k])]]]

\* Zookeeper._get_config: None without the node or without the section of
\* the router.
ZookeeperGetConfig(router, st) ==
  IF st.config.type = "missing" THEN None
  ELSE IF st.config.section # router.name THEN None
  ELSE st.config

\* Zookeeper._get_overrides: `raw.splitlines() or None`.
ZookeeperGetOverrides(st) ==
  IF st.overrides.type = "missing" THEN None
  ELSE IF st.overrides.lines = << >> THEN None
  ELSE [type |-> "list", lines |-> st.overrides.lines]

\* Zookeeper._src: the config, the overrides, the router.
ZookeeperSrc(router, st) ==
  LET config == ZookeeperGetConfig(router, st)
      raw == ZookeeperGetOverrides(st)
  IN  (IF config.type = "NoneType" THEN << >>
       ELSE << [kind |-> "config", data |-> config.options] >>)
      \o (IF raw.type = "NoneType" THEN << >>
          ELSE << [kind |-> "dict", data |-> [overrides |-> raw.lines]] >>)
      \o << [kind |-> "form", data |-> router] >>

\* Dynamic.load that, when the mapping raises, has put the defaults of the
\* dynamic fields into the router.
Load_ResetOnError(router, st) ==
  LET srcs == CASE router.dynamic.type = "redis"     -> RedisSrc(router, st)
                [] router.dynamic.type = "zookeeper" -> ZookeeperSrc(router, st)
                [] OTHER                             -> EtcdSrc(router, st)
      update == Mapped(srcs)
      reset == Mapped(<< [kind |-> "json", data |-> DefaultDoc] >>)
  IN  IF update.kind = "raise"
      THEN [kind |-> "raise", value |-> update.value,
            router |-> Update(router, reset.value)]
      ELSE [kind |-> "ok", value |-> NoneStr,
            router |-> Update(router, update.value)]

\* Dynamic.load of the three backends: map the sources into a new form, then
\* update the router; an error of the mapping leaves the router as it was.
Load(router, st) ==
  LET srcs == CASE router.dynamic.type = "redis"     -> RedisSrc(router, st)
                [] router.dynamic.type = "zookeeper" -> ZookeeperSrc(router, st)
                [] OTHER                             -> EtcdSrc(router, st)
      update == Mapped(srcs)
  IN  IF update.kind = "raise"
      THEN [kind |-> "raise", value |-> update.value, router |-> router]
      ELSE [kind |-> "ok", value |-> NoneStr,
            router |-> Update(router, update.value)]

\* Dynamic.save of the three backends, writes only (redis publishes after).
Save(router, st) ==
  CASE router.dynamic.type = "redis" ->
         [kind |-> "ok", value |-> NoneStr, store |-> RedisSet(router, st)]
    [] router.dynamic.type = "zookeeper" ->
         ZookeeperSetConfig(router, ZookeeperSetOverrides(router, st))
    [] OTHER ->
         [kind |-> "ok", value |-> NoneStr, store |-> EtcdWrite(router, st)]

\* ------------------------------------------------------------ expressions
\* The expressions of rump/exp/__init__.py over a request with an integer
\* field n (as content_length), a string field s (as path) and a boolean
\* field b (as has_content).  A field value is [null, v]: null when the
\* field is None.  A string is the sequence of its characters.  A FieldOp
\* is [type, cls, field, null, inv]: its class, its field, whether its
\* literal is None, and its inv flag; the literal that is not None is the
\* one of the field and class below.  A bare boolean field has cls
\* "Boolean".  A BoolOp is [type, cls, lhs, rhs].

\* Largest value of the integer field.
MaxInt == 2

\* The literals: of a comparison with n, of a test of s (also the pattern
\* of a match, which has no special characters), and the lists of `in`.
IntLiteral == 1

StrLiteral == << "a" >>

IntList == {1, 2}

StrList == {<< "a" >>, << "b" >>}

IntValues ==
  {[null |-> TRUE, v |-> 0]} \cup {[null |-> FALSE, v |-> j] : j \in 0..MaxInt}

StrValues ==
  {[null |-> TRUE, v |-> << >>]}
    \cup {[null |-> FALSE, v |-> w] :
            w \in {<< >>, << "a" >>, << "a", "b" >>, << "b", "a" >>}}

BoolValues ==
  {[null |-> TRUE, v |-> FALSE]} \cup {[null |-> FALSE, v |-> t] : t \in BOOLEAN}

Requests == [n : IntValues, s : StrValues, b : BoolValues]

FieldOp(cls, field, null, inv) ==
  [type |-> "FieldOp", cls |-> cls, field |-> field, null |-> null,
   inv |-> inv]

BoolOp(cls, lhs, rhs) ==
  [type |-> "BoolOp", cls |-> cls, lhs |-> lhs, rhs |-> rhs]

\* And.precedence, Or.precedence
Precedence(cls) == IF cls = "And" THEN 10 ELSE 5

\* str.startswith, str.endswith, `in` on strings; re.match of a pattern
\* without special characters is startswith.
StartsWith(w, prefix) ==
  Len(prefix) <= Len(w) /\ SubSeq(w, 1, Len(prefix)) = prefix

EndsWith(w, suffix) ==
  Len(suffix) <= Len(w)
    /\ SubSeq(w, Len(w) - Len(suffix) + 1, Len(w)) = suffix

Within(w, item) ==
  \E j \in 1..(Len(w) - Len(item) + 1) :
    SubSeq(w, j, j + Len(item) - 1) = item

\* What a call or an evaluation gives: a truth value, or an exception.
Gives(t) == [kind |-> "ok", v |-> t]

Raises == [kind |-> "raise", v |-> FALSE]

EvaluateForNone_Default(node) == FALSE

\* _evaluate_for of a value that is None: the literal is (not) None for
\* FieldEqual (FieldNotEqual), self.default for the others.
EvaluateForNone(node) ==
  CASE node.cls = "FieldEqual"    -> node.null
    [] node.cls = "FieldNotEqual" -> ~node.null
    [] OTHER                      -> FALSE

\* _evaluate_for of the FieldOp classes, on a value that is not None.
EvaluateForValue(node, w) ==
  CASE node.cls = "FieldEqual" ->
         ~node.null /\ w = (IF node.field = "n" THEN IntLiteral ELSE StrLiteral)
    [] node.cls = "FieldNotEqual" ->
         node.null \/ w # (IF node.field = "n" THEN IntLiteral ELSE StrLiteral)
    [] node.cls = "FieldLessThan"         -> w < IntLiteral
    [] node.cls = "FieldLessThanEqual"    -> w <= IntLiteral
    [] node.cls = "FieldGreaterThan"      -> w > IntLiteral
    [] node.cls = "FieldGreaterThanEqual" -> w >= IntLiteral
    [] node.cls = "FieldStartswith"       -> StartsWith(w, StrLiteral)
    [] node.cls = "FieldEndswith"         -> EndsWith(w, StrLiteral)
    [] node.cls = "FieldMatch"            -> StartsWith(w, StrLiteral)
    [] node.cls = "FieldIn" ->
         w \in (IF node.field = "n" THEN IntList ELSE StrList)
    [] OTHER                              -> Within(w, StrLiteral)

\* FieldOp.__call__, and BooleanMixin.__call__ for a bare boolean field.
FieldOpCall(node, request) ==
  LET value == request[node.field]
      result == IF node.cls = "Boolean"
                THEN (IF value.null THEN FALSE ELSE value.v)
                ELSE IF value.null THEN EvaluateForNone(node)
                ELSE EvaluateForValue(node, value.v)
  IN  Gives(IF node.inv THEN ~result ELSE result)

\* Expression.__call__: And is `lhs(request) and rhs(request)`, Or is
\* `lhs(request) or rhs(request)`.
RECURSIVE Evaluate(_, _)
Evaluate(node, request) ==
  IF node.type = "FieldOp" THEN FieldOpCall(node, request)
  ELSE LET l == Evaluate(node.lhs, request)
       IN  IF l.kind = "raise" THEN l
           ELSE IF l.v = (node.cls = "Or") THEN l
           ELSE Evaluate(node.rhs, request)

Invert_Same(node) == node

\* __invert__: De Morgan for And and Or, the other class for FieldEqual
\* and FieldNotEqual, a copy with inv flipped for the rest.
RECURSIVE Invert(_)
Invert(node) ==
  IF node.type = "BoolOp"
  THEN BoolOp(IF node.cls = "And" THEN "Or" ELSE "And",
              Invert(node.lhs), Invert(node.rhs))
  ELSE CASE node.cls = "FieldEqual" ->
              FieldOp("FieldNotEqual", node.field, node.null, FALSE)
         [] node.cls = "FieldNotEqual" ->
              FieldOp("FieldEqual", node.field, node.null, FALSE)
         [] OTHER -> [node EXCEPT !.inv = ~node.inv]

\* The tokens of a printed or compiled expression.
Word(name) == [type |-> "word", name |-> name]

\* __str__ of a FieldOp or bare boolean field, as the grammar reads it: a
\* field expression whose operator group holds the name and, for =, ~ and
\* in, the inv mark (`!=` is an inverted `=`); the other classes print inv
\* as a leading `not`, which the grammar reads as its not operator.
FieldStr(node) ==
  LET grouped == node.cls \in {"FieldEqual", "FieldNotEqual", "FieldMatch",
                               "FieldIn", "FieldContains"}
      token == [type |-> "field_expr",
                name |-> CASE node.cls = "FieldNotEqual" -> "FieldEqual"
                           [] node.cls = "FieldContains" -> "FieldIn"
                           [] OTHER -> node.cls,
                field |-> node.field,
                value |-> CASE node.null -> "null"
                            [] node.cls = "FieldIn" -> "list"
                            [] OTHER -> "literal",
                inv |-> grouped /\ (node.inv \/ node.cls = "FieldNotEqual")]
  IN  IF node.inv /\ ~grouped THEN << Word("not"), token >> ELSE << token >>

\* as_field_expr of the parser: the expression of the operator's name (in
\* with a string is contains), inverted when the operator group has inv.
AsFieldExpr(token) ==
  LET made == FieldOp(IF token.name = "FieldIn" /\ token.value = "literal"
                      THEN "FieldContains" ELSE token.name,
                      token.field, token.value = "null", FALSE)
  IN  IF token.inv THEN Invert(made) ELSE made

\* FieldOp.compile and the compile of its subclasses: one operand of the
\* Python expression, that evaluates as CompiledOperand below.
FieldCompile(node) == << [type |-> "operand", node |-> node] >>

\* BoolOp.__str__ and BoolOp.compile, given the texts l and r of the
\* children: l in parentheses when lhs is a BoolOp of lower precedence,
\* then the name, then r as it is.
BoolOpJoin(cls, lhs, rhs, l, r) ==
  (IF lhs.type = "BoolOp" /\ Precedence(lhs.cls) < Precedence(cls)
   THEN << Word("(") >> \o l \o << Word(")") >> ELSE l)
    \o << Word(IF cls = "And" THEN "and" ELSE "or") >>
    \o r

\* Expression.__str__
RECURSIVE Str(_)
Str(node) ==
  IF node.type = "FieldOp" THEN FieldStr(node)
  ELSE BoolOpJoin(node.cls, node.lhs, node.rhs, Str(node.lhs), Str(node.rhs))

\* Expression.compile
RECURSIVE Compile(_)
Compile(node) ==
  IF node.type = "FieldOp" THEN FieldCompile(node)
  ELSE BoolOpJoin(node.cls, node.lhs, node.rhs,
                  Compile(node.lhs), Compile(node.rhs))

\* The grammar of the parser (operatorPrecedence: not, then and, then or,
\* both left associative, parentheses), which for these operators is also
\* how Python groups a compiled expression.  Each operator gives
\* [tree, rest]: the expression read and the tokens after it.
IsWord(tokens, name) ==
  tokens # << >> /\ Head(tokens).type = "word" /\ Head(tokens).name = name

RECURSIVE ParseOperand(_), ParseAnd(_, _), ParseOr(_, _)
ParseOperand(tokens) ==
  IF IsWord(tokens, "(")
  THEN LET first == ParseOperand(Tail(tokens))
           conj == ParseAnd(first.tree, first.rest)
           disj == ParseOr(conj.tree, conj.rest)
       IN  [tree |-> disj.tree, rest |-> Tail(disj.rest)]
  ELSE IF IsWord(tokens, "not")
  THEN LET operand == ParseOperand(Tail(tokens))
       IN  [tree |-> Invert(operand.tree), rest |-> operand.rest]
  ELSE [tree |-> IF Head(tokens).type = "field_expr"
                 THEN AsFieldExpr(Head(tokens)) ELSE Head(tokens).node,
        rest |-> Tail(tokens)]

ParseAnd(left, tokens) ==
  IF IsWord(tokens, "and")
  THEN LET operand == ParseOperand(Tail(tokens))
       IN  ParseAnd(BoolOp("And", left, operand.tree), operand.rest)
  ELSE [tree |-> left, rest |-> tokens]

ParseOr(left, tokens) ==
  IF IsWord(tokens, "or")
  THEN LET first == ParseOperand(Tail(tokens))
           conj == ParseAnd(first.tree, first.rest)
       IN  ParseOr(BoolOp("Or", left, conj.tree), conj.rest)
  ELSE [tree |-> left, rest |-> tokens]

\* parser.for_match(...)(text), and compile(text, '<string>', 'eval').
Parse(tokens) ==
  LET first == ParseOperand(tokens)
      conj == ParseAnd(first.tree, first.rest)
  IN  ParseOr(conj.tree, conj.rest).tree

\* What the compiled text of a FieldOp evaluates to in Python 2, as the
\* truth of its value: None orders before every integer; `x in None` and
\* str.match raise; `request[f] and ...` is false for an empty string.
CompiledOperand(node, request) ==
  LET value == request[node.field]
      w == value.v
      flip(t) == Gives(IF node.inv THEN ~t ELSE t)
  IN  CASE node.cls = "Boolean" -> flip(~value.null /\ w)
        [] node.cls = "FieldEqual" ->
             IF node.null THEN flip(value.null)
             ELSE flip(~value.null /\ EvaluateForValue(node, w))
        [] node.cls = "FieldNotEqual" ->
             IF node.null THEN Gives(~value.null)
             ELSE Gives(value.null \/ EvaluateForValue(node, w))
        [] node.cls \in {"FieldLessThan", "FieldLessThanEqual"} ->
             flip(value.null \/ EvaluateForValue(node, w))
        [] node.cls \in {"FieldGreaterThan", "FieldGreaterThanEqual"} ->
             flip(~value.null /\ EvaluateForValue(node, w))
        [] node.cls \in {"FieldStartswith", "FieldEndswith"} ->
             flip(~value.null /\ w # << >> /\ EvaluateForValue(node, w))
        [] node.cls = "FieldMatch" ->
             IF value.null THEN flip(FALSE) ELSE Raises
        [] node.cls = "FieldIn" ->
             flip(~value.null /\ EvaluateForValue(node, w))
        [] OTHER ->
             IF value.null THEN Raises ELSE flip(EvaluateForValue(node, w))

\* eval of the compiled expression: Python's `and` and `or`.
RECURSIVE PyEval(_, _)
PyEval(node, request) ==
  IF node.type = "FieldOp" THEN CompiledOperand(node, request)
  ELSE LET l == PyEval(node.lhs, request)
       IN  IF l.kind = "raise" THEN l
           ELSE IF l.v = (node.cls = "Or") THEN l
           ELSE PyEval(node.rhs, request)

\* Rule.match and CompiledRule.match_context: whether the rule's upstream
\* is returned.
RuleMatches(node, request) == Evaluate(node, request)

CompiledRuleMatches(node, request) == PyEval(Parse(Compile(node)), request)

\* ------------------------------------------- the expressions evaluated

\* The FieldOps of every class on n and on s, plain and inverted (= and
\* != invert into one another and never carry inv), and the bare b.
FieldOps ==
  { FieldOp(cls, field, null, FALSE) :
      cls \in {"FieldEqual", "FieldNotEqual"}, field \in {"n", "s"},
      null \in BOOLEAN }
  \cup { FieldOp(cls, "n", FALSE, inv) :
           cls \in {"FieldLessThan", "FieldLessThanEqual", "FieldGreaterThan",
                    "FieldGreaterThanEqual", "FieldIn"},
           inv \in BOOLEAN }
  \cup { FieldOp(cls, "s", FALSE, inv) :
           cls \in {"FieldStartswith", "FieldEndswith", "FieldMatch",
                    "FieldIn", "FieldContains"},
           inv \in BOOLEAN }
  \cup { FieldOp("Boolean", "b", FALSE, inv) : inv \in BOOLEAN }

\* The leaves of the nested expressions: has_content and
\* content_length < 1.
Leaves ==
  { FieldOp("Boolean", "b", FALSE, FALSE),
    FieldOp("FieldLessThan", "n", FALSE, FALSE) }

BoolOps(lefts, rights) ==
  { BoolOp(cls, l, r) : cls \in {"And", "Or"}, l \in lefts, r \in rights }

\* Every And and Or of two leaves, and of a leaf and such a BoolOp on
\* either side.
Nested ==
  BoolOps(Leaves, Leaves)
    \cup BoolOps(BoolOps(Leaves, Leaves), Leaves)
    \cup BoolOps(Leaves, BoolOps(Leaves, Leaves))

RECURSIVE FieldsOf(_)
FieldsOf(node) ==
  IF node.type = "FieldOp" THEN {node.field}
  ELSE FieldsOf(node.lhs) \cup FieldsOf(node.rhs)

\* The requests an expression is evaluated on: the fields it does not
\* read are None.
RequestsFor(node) ==
  { q \in Requests : \A field \in {"n", "s", "b"} \ FieldsOf(node) : q[field].null }

\* Most inversions of an expression in a row.
MaxFlips == 2

NoProbe ==
  [e |-> FieldOp("Boolean", "b", FALSE, FALSE),
   request |-> [n |-> [null |-> TRUE, v |-> 0],
                s |-> [null |-> TRUE, v |-> << >>],
                b |-> [null |-> TRUE, v |-> FALSE]],
   node |-> FieldOp("Boolean", "b", FALSE, FALSE), flips |-> 0,
   op |-> "init", got |-> Gives(FALSE),
   parsed |-> FieldOp("Boolean", "b", FALSE, FALSE)]

\* ---------------------------------------------------- selecting a server
\* An Upstream object with the attributes its constructor derives:
\* [selections, total, uniform], a selection being [server, weight].

\* Largest weight and longest list of selections.
MaxWeight == 2

MaxSelections == 2

\* Most item assignments, deletions and inserts on one Upstream.
MaxEdits == 1

Servers == {"a", "b"}

\* The weights the constructor is given; the parser reads a weight as
\* Word(nums), a natural number, and defaults it to 1.
Weights == 0..MaxWeight

Selections == [server : Servers, weight : Weights]

RECURSIVE SumWeights(_)
SumWeights(sels) ==
  IF sels = << >> THEN 0 ELSE Head(sels).weight + SumWeights(Tail(sels))

\* Upstream.__init__
UpstreamInit(sels) ==
  [selections |-> sels,
   total |-> SumWeights(sels),
   uniform |-> Cardinality({sels[j].weight : j \in 1..Len(sels)}) = 1]

\* The lists of selections of a new Upstream: any list for the
\* constructor, one selection at least for the parser (delimitedList).
SelectionLists(origin) ==
  UNION { [1..len -> Selections] :
            len \in (IF origin = "parser" THEN 1 ELSE 0)..MaxSelections }

\* Upstream.__setitem__, __delitem__ and insert, on 0-based positions in
\* range: the list changes, total and uniform are left as they are.
SetItem(u, index, sel) ==
  [u EXCEPT !.selections = [@ EXCEPT ![index + 1] = sel]]

DelItem(u, index) ==
  [u EXCEPT !.selections =
     SubSeq(@, 1, index) \o SubSeq(@, index + 2, Len(@))]

Insert(u, index, sel) ==
  [u EXCEPT !.selections =
     SubSeq(@, 1, index) \o << sel >> \o SubSeq(@, index + 1, Len(@))]

\* The loop of Upstream.__call__ over the selections from the j-th on.
RECURSIVE SelectByWeight(_, _, _, _)
SelectByWeight(u, choice, offset, j) ==
  IF j > Len(u.selections) THEN [kind |-> "raise", server |-> NoneStr]
  ELSE IF choice < offset + u.selections[j].weight
  THEN [kind |-> "ok", server |-> u.selections[j].server]
  ELSE SelectByWeight(u, choice, offset + u.selections[j].weight, j + 1)

\* Upstream.__call__ of an Upstream that is not uniform, choice being what
\* random.randint(0, self.total - 1), or a mock of it, returned.
Select(u, choice) == SelectByWeight(u, choice, 0, 1)

NoPick ==
  [u |-> UpstreamInit(<< >>), origin |-> "constructor", edits |-> 0,
   op |-> "init", choice |-> 0, got |-> [kind |-> "ok", server |-> NoneStr],
   before |-> UpstreamInit(<< >>)]

\* ---------------------------------------------------------------- dispatch
\* A host pattern is the sequence of its characters, "." standing for any
\* one character; a host name is the sequence of its characters.  A request
\* is [host].

\* regex.match(text): the pattern is matched at the start of the text and
\* need not reach its end; the result is a match object, or None.
ReMatch(pattern, text) ==
  IF /\ Len(pattern) <= Len(text)
     /\ \A k \in 1..Len(pattern) : pattern[k] \in {".", text[k]}
  THEN [type |-> "Match", end |-> Len(pattern)]
  ELSE None

\* Python truth value of what regex.match returns: a match object has no
\* __len__ and no __nonzero__ and is true, also when it matched nothing.
MatchTruthy(v) == v.type # "NoneType"

\* Router.match_me(request): the match of the first host pattern that
\* matches request.host, None when there is none.
RECURSIVE MatchMeFrom(_, _, _)
MatchMeFrom(router, request, k) ==
  IF k > Len(router.hosts) THEN None
  ELSE LET m == ReMatch(router.hosts[k].pattern, request.host)
       IN  IF MatchTruthy(m) THEN m ELSE MatchMeFrom(router, request, k + 1)

MatchMe(router, request) == MatchMeFrom(router, request, 1)

\* The loop of router_for with the routers taken last to first.
RECURSIVE RouterFor_Last(_, _, _)
RouterFor_Last(list, request, k) ==
  IF Len(list) - k + 1 < 1 THEN 0
  ELSE IF MatchTruthy(MatchMe(list[Len(list) - k + 1], request))
       THEN Len(list) - k + 1
       ELSE RouterFor_Last(list, request, k + 1)

\* _Application.router_for(request) over settings.routers = list: the index
\* of the first router whose match_me is true, 0 for None.
RECURSIVE RouterFor(_, _, _)
RouterFor(list, request, k) ==
  IF k > Len(list) THEN 0
  ELSE IF MatchTruthy(MatchMe(list[k], request)) THEN k
       ELSE RouterFor(list, request, k + 1)

\* Router.match_upstream(request): `self.overrides.match(request) or
\* self.rules.match(request) or self.default_upstream`, and the router with
\* the rules the matches disabled.
MatchUpstream(router) ==
  LET o == Match(router.overrides, NoneStr)
      after == [router EXCEPT !.overrides.disabled = o.disabled]
      r == Match(router.rules, NoneStr)
      done == [after EXCEPT !.rules.disabled = r.disabled]
  IN  IF o.kind = "raise" THEN [kind |-> "raise", value |-> None, router |-> after]
      ELSE IF Truthy(o.value)
      THEN [kind |-> "return", value |-> o.value, router |-> after]
      ELSE IF r.kind = "raise"
      THEN [kind |-> "raise", value |-> None, router |-> done]
      ELSE IF Truthy(r.value)
      THEN [kind |-> "return", value |-> r.value, router |-> done]
      ELSE [kind |-> "return", value |-> router.default_upstream,
            router |-> done]

\* The host patterns of the routers and the hosts of the requests.
HostPatterns ==
  { << >>, << << >> >>, << << "a", "b" >> >>, << << "b" >>, << ".", "a" >> >> }

HostNames == { << "a" >>, << "a", "b" >>, << "b", "a" >>, << "a", "a" >> }

\* No request was served.
NoServed ==
  [routers |-> << >>, host |-> << >>, op |-> "init", index |-> 0,
   kind |-> "ok", value |-> None]

\* ------------------------------------------------------- loading rule text
\* A rule of a rule text is [expression, upstream]; a line of text is
\* [pad, body]: pad is whether white space surrounds the body, which is
\* empty, a comment (its first character is '#'), a rule in the DSL
\* ([exp, upstream], the tokens of the expression and the upstream string)
\* or junk, which the grammar does not accept.

\* Longest text, in lines, and longest rule list that is dumped.
MaxLines == 3

MaxDumped == 2

\* str.strip()
Strip(line) == line.body

\* Rule.__str__ / CompiledRule.__str__
RuleLine(rule) ==
  [type |-> "rule", exp |-> Str(rule.expression),
   upstream |-> UpstreamStr(rule.upstream)]

\* parser.for_rule(request_type)(line): the Rule of a line of the DSL, a
\* ParseException for anything else.
ParseLine(body) ==
  IF body.type = "rule"
  THEN [kind |-> "ok",
        rule |-> [expression |-> Parse(body.exp),
                  upstream |-> ParseUpstream(body.upstream)]]
  ELSE [kind |-> "raise", rule |-> None]

\* Rules.load(io, strict) on a Rules that holds list: every line is
\* stripped; an empty line and a comment are passed over; a line that
\* parses is appended; one that does not raises when strict and is passed
\* over otherwise.  The rules appended before a raise stay.
RECURSIVE RulesLoad(_, _, _)
RulesLoad(list, text, strict) ==
  IF text = << >> THEN [kind |-> "ok", rules |-> list]
  ELSE LET line == Strip(Head(text))
       IN  IF line.type \in {"empty", "comment"}
           THEN RulesLoad(list, Tail(text), strict)
           ELSE LET parsed == ParseLine(line)
                IN  IF parsed.kind = "raise"
                    THEN IF strict
                         THEN [kind |-> "ParseException", rules |-> list]
                         ELSE RulesLoad(list, Tail(text), strict)
                    ELSE RulesLoad(Append(list, parsed.rule), Tail(text),
                                   strict)

\* Rules.dumps(): str(rule) and a newline for every rule.
RulesDumps(list) ==
  [k \in 1..Len(list) |-> [pad |-> FALSE, body |-> RuleLine(list[k])]]

\* Rule.__eq__: Expression.__eq__ compares the printed forms of the two
\* expressions, Upstream.__eq__ the selections.
RulePyEq(a, b) ==
  Str(a.expression) = Str(b.expression) /\ a.upstream = b.upstream

\* Rules.__eq__: list equality over Rule.__eq__.
RulesPyEq(x, y) ==
  Len(x) = Len(y) /\ \A k \in 1..Len(x) : RulePyEq(x[k], y[k])

\* The expressions of the rules that are dumped: has_content, an And with
\* an Or on its right, an Or with an And on its left.
DumpedExpressions ==
  LET b == FieldOp("Boolean", "b", FALSE, FALSE)
      n == FieldOp("FieldLessThan", "n", FALSE, FALSE)
  IN  { b, BoolOp("And", b, BoolOp("Or", b, n)),
        BoolOp("Or", BoolOp("And", b, b), n) }

DumpedRules ==
  UNION { { [k \in 1..len |-> [expression |-> es[k], upstream |-> UpstreamOf(k)]]
            : es \in [1..len -> DumpedExpressions] }
          : len \in 0..MaxDumped }

\* The lines of the texts that are loaded.
Lines ==
  { [pad |-> pad, body |-> body] :
      pad \in BOOLEAN,
      body \in { [type |-> "empty"], [type |-> "comment"], [type |-> "junk"] } }
  \cup { [pad |-> FALSE,
          body |-> RuleLine([expression |-> FieldOp("Boolean", "b", FALSE, inv),
                             upstream |-> UpstreamOf(3)])]
         : inv \in BOOLEAN }

Texts == UNION { [1..len -> Lines] : len \in 0..MaxLines }

\* Nothing was loaded.
NoIo ==
  [rules |-> << >>, text |-> << >>, dumped |-> FALSE, op |-> "init",
   strict |-> TRUE, kind |-> "ok", loaded |-> << >>]

\* ------------------------------------------------------------ configurations

\* Longest list of overrides of a router that saves.
MaxOverrides == 2

\* The text of a rule whose expression does exp on the request and whose
\* upstream is http://s<k>.
RuleText(exp, k) ==
  [type |-> "str", exp |-> exp, upstream |-> UpstreamStr(UpstreamOf(k))]

\* Every list of at most max rule texts, with upstreams numbered from base.
RuleTexts(max, outs, base) ==
  UNION { { [k \in 1..n |-> RuleText(o[k], base + k)] : o \in [1..n -> outs] }
          : n \in 0..max }

\* The documents of the dynamic fields a router is built from.
Docs ==
  { [enabled |-> e, hosts |-> h, compile_rules |-> c,
     auto_disable_rules |-> a, default_upstream |-> u, overrides |-> o]
    : e \in BOOLEAN, h \in { << >>, << "^a" >> }, c \in BOOLEAN,
      a \in BOOLEAN, u \in { Null, UpstreamStr(UpstreamOf(10)) },
      o \in RuleTexts(MaxOverrides, {"true"}, 10) }

\* A router with no default value left, its rules compiled or not.
OtherDoc(c) ==
  [enabled |-> FALSE, hosts |-> << "^b" >>, compile_rules |-> c,
   auto_disable_rules |-> FALSE,
   default_upstream |-> UpstreamStr(UpstreamOf(20)),
   overrides |-> << RuleText("true", 21) >>]

LocalDocs == { DefaultDoc, OtherDoc(TRUE), OtherDoc(FALSE) }

\* What a client that is no router writes: some of the dynamic fields and,
\* in a JSON text, keys that are no dynamic field.
ForeignDoc ==
  [enabled |-> FALSE, hosts |-> << "^c" >>, compile_rules |-> FALSE,
   auto_disable_rules |-> FALSE,
   default_upstream |-> UpstreamStr(UpstreamOf(30)),
   overrides |-> << RuleText("false", 31) >>,
   name |-> "other", rules |-> << RuleText("true", 32) >>]

ForeignKeys ==
  { {}, {"enabled", "hosts"}, {"overrides"},
    {"compile_rules", "auto_disable_rules", "default_upstream"} }

Restrict(doc, keys) == [f \in keys |-> doc[f]]

Written(type, name, keys) ==
  IF type = "zookeeper"
  THEN [blob |-> Missing,
        config |->
          [type |-> "ini", section |-> name,
           options |->
             Restrict(ZookeeperEncodeConfig(
                        NewRouter(name, Restrict(ForeignDoc, DynamicFields),
                                  << >>, type)),
                      keys \ {"overrides"})],
        overrides |->
          IF "overrides" \in keys
          THEN [type |-> "text", lines |-> ForeignDoc.overrides]
          ELSE Missing]
  ELSE [blob |-> [type |-> "json",
                  data |-> Restrict(ForeignDoc, keys \cup {"name", "rules"})],
        config |-> Missing, overrides |-> Missing]

\* Two routers of one name bound to one remote location: A saves, B loads.
Routers == {"A", "B"}

Savers == {"A"}

Loaders == {"B"}

\* The record of a load or save: the router that did it, how it ended, and
\* the router before it.
Did(op, who, kind, before) ==
  [op |-> op, who |-> who, kind |-> kind, before |-> before]

\* No save whose content the store still holds.
NotSaved == [ok |-> FALSE, dynamic |-> Filter(NewRouter("r1", DefaultDoc, << >>, "redis"))]

\* No call of match_upstream.
NoCall == [pc |-> 0, kind |-> "none", value |-> None, seen |-> {}]

\* The variables a specification leaves alone.
IdleRules ==
  /\ rules = RulesOf(<< >>, FALSE, FALSE)
  /\ ret = [op |-> "init", arg |-> NoneStr, kind |-> "ok", value |-> None,
            before |-> {}, evaluated |-> << >>]
  /\ since = {}

IdleDyn ==
  /\ routers = [r \in Routers |-> NewRouter("r1", DefaultDoc, << >>, "redis")]
  /\ store = EmptyStore
  /\ last = Did("init", "A", "ok", routers["A"])
  /\ saved = NotSaved

IdleCall == call = NoCall

IdleWatch ==
  /\ chan = << >>
  /\ sub = FALSE
  /\ pend = [pc |-> 0, text |-> Missing]
  /\ notified = {}

\* A dynamic that never connected and has no watcher thread.  cli and thd
\* are whether dynamic._cli and dynamic._watch_thd are set, callback
\* whether the thread's callback is, pc where the thread is, changed
\* whether the watched key was written since the thread last looked, root
\* whether a zookeeper dynamic has hosts and a root, block whether the
\* program is inside `with router.connect():`.  linked is history: a
\* connect returned and no disconnect was called since; woke is why the
\* last cli.watch of the thread returned, a change or a timeout.
NoLink(root) ==
  [root |-> root, cli |-> FALSE, block |-> FALSE, thd |-> FALSE,
   callback |-> FALSE, pc |-> "none", changed |-> FALSE, linked |-> FALSE,
   woke |-> "none"]

IdleMore == served = NoServed /\ io = NoIo

IdleExt == link = NoLink(TRUE) /\ probe = NoProbe /\ pick = NoPick /\ IdleMore

\* --------------------------------------------------- operations on a Rules

\* The arguments of Rules.match's error parameter, one of them invalid.
ErrorArgs == {NoneStr, "raise", "disable", "suppress", "ignore"}

\* The indices passed to disable and enable, some of them out of range.
IndexArgs == (0 - MaxRules - 1) .. (MaxRules + 1)

\* Whether i is an index of a list of n elements.
InRange(i, n) == i >= 0 - n /\ i < n

\* The argument of disable and enable as the record of a call keeps it.
IndexClass(i, n) == IF InRange(i, n) THEN "index" ELSE "out of range"

\* The record of a call: its operation and argument (for disable and enable,
\* whether the index was one of the list), how it ended (kind) and with
\* what (value) and, for a match, the disabled set before the call and the
\* indices of the rules it evaluated, in order.
Call(op, arg, kind, value, before, evaluated) ==
  [op |-> op, arg |-> arg, kind |-> kind, value |-> value,
   before |-> before, evaluated |-> evaluated]

InitRules ==
  /\ \E c \in BOOLEAN, a \in BOOLEAN : rules \in NewRules(c, a)
  /\ ret = Call("init", NoneStr, "ok", None, {}, << >>)
  /\ since = {}
  /\ IdleDyn /\ IdleCall /\ IdleWatch /\ IdleExt

\* rules.match(request, error=error)
DoMatch(error) ==
  LET m == Match(rules, error)
  IN  /\ rules' = [rules EXCEPT !.disabled = m.disabled]
      /\ ret' = Call("match", error, m.kind, m.value, rules.disabled, m.evaluated)
      /\ since' = m.disabled
      /\ UNCHANGED << dynVars, call, watchVars, extVars >>

\* rules.disable(i)
DoDisable(i) ==
  LET d == Disable(rules.rules, rules.disabled, i)
  IN  /\ rules' = [rules EXCEPT !.disabled = d.disabled]
      /\ ret' = Call("disable", IndexClass(i, Len(rules.rules)), d.kind, None, {}, << >>)
      /\ since' = IF InRange(i, Len(rules.rules))
                  THEN since \cup {rules.rules[(i % Len(rules.rules)) + 1].oid}
                  ELSE since
      /\ UNCHANGED << dynVars, call, watchVars, extVars >>

\* rules.enable(i)
DoEnable(i) ==
  LET e == Enable(rules.rules, rules.disabled, i)
  IN  /\ rules' = [rules EXCEPT !.disabled = e.disabled]
      /\ ret' = Call("enable", IndexClass(i, Len(rules.rules)), e.kind, None, {}, << >>)
      /\ since' = IF InRange(i, Len(rules.rules))
                  THEN since \ {rules.rules[(i % Len(rules.rules)) + 1].oid}
                  ELSE since
      /\ UNCHANGED << dynVars, call, watchVars, extVars >>

\* rules.disable_all()
DoDisableAll ==
  /\ rules' = [rules EXCEPT !.disabled = DisableAll(rules.rules)]
  /\ ret' = Call("disable_all", NoneStr, "ok", None, {}, << >>)
  /\ since' = { r.oid : r \in { rules.rules[k] : k \in 1..Len(rules.rules) } }
  /\ UNCHANGED << dynVars, call, watchVars, extVars >>

\* rules.enable_all()
DoEnableAll ==
  /\ rules' = [rules EXCEPT !.disabled = EnableAll]
  /\ ret' = Call("enable_all", NoneStr, "ok", None, {}, << >>)
  /\ since' = {}
  /\ UNCHANGED << dynVars, call, watchVars, extVars >>

NextRules ==
  \/ \E error \in ErrorArgs : DoMatch(error)
  \/ \E i \in IndexArgs : DoDisable(i)
  \/ \E i \in IndexArgs : DoEnable(i)
  \/ DoDisableAll
  \/ DoEnableAll

Init == InitRules

Next == NextRules

Spec == Init /\ [][Next]_vars

\* ------------------------------------------ load and save of two routers

InitDyn ==
  /\ \E t \in Backends, a \in Docs, b \in LocalDocs :
       routers = [r \in Routers |->
                    NewRouter("r1", IF r = "A" THEN a ELSE b, << >>, t)]
  /\ store = EmptyStore
  /\ last = Did("init", "A", "ok", routers["A"])
  /\ saved = NotSaved
  /\ IdleRules /\ IdleCall /\ IdleWatch /\ IdleExt

\* routers[r].save()
DoSave(r) ==
  LET s == Save(routers[r], store)
  IN  /\ store' = s.store
      /\ saved' = IF s.kind = "ok"
                  THEN [ok |-> TRUE, dynamic |-> Filter(routers[r])]
                  ELSE NotSaved
      /\ last' = Did("save", r, s.kind, routers[r])
      /\ UNCHANGED << routers, rulesVars, call, watchVars, extVars >>

\* routers[r].load(); a match_upstream call that is running sees the router
\* hold the configuration loaded.
DoLoad(r) ==
  LET l == Load(routers[r], store)
  IN  /\ routers' = [routers EXCEPT ![r] = l.router]
      /\ last' = Did("load", r, l.kind, routers[r])
      /\ call' = IF call.pc = 0 THEN call
                 ELSE [call EXCEPT !.seen = @ \cup {l.router}]
      /\ UNCHANGED << store, saved, rulesVars, watchVars, extVars >>

\* A client that is no router writes the remote location.
DoWrite(keys) ==
  /\ store' = Written(routers["A"].dynamic.type, routers["A"].name, keys)
  /\ saved' = NotSaved
  /\ last' = Did("write", "A", "ok", routers["A"])
  /\ UNCHANGED << routers, rulesVars, call, watchVars, extVars >>

NextDyn ==
  \/ \E r \in Savers : DoSave(r)
  \/ \E r \in Loaders : DoLoad(r)
  \/ \E keys \in ForeignKeys : DoWrite(keys)

SpecDyn == InitDyn /\ [][NextDyn]_vars

\* ------------------------------- match_upstream while the watcher loads

\* Longest list of rules, and of overrides, of a router that serves.
MaxServed == 1

\* The operands of `overrides.match(r) or rules.match(r) or default_upstream`
\* with the first two exchanged.
MatchUpstreamOperands_RulesFirst == << "rules", "overrides", "default_upstream" >>

\* The operands of Router.match_upstream's `or` chain, in their order.
MatchUpstreamOperands == << "overrides", "rules", "default_upstream" >>

\* B serves with the rules of its file and no override; A, a router with the
\* defaults but for its overrides and default_upstream, saves for it.
InitMatch ==
  /\ \E c \in BOOLEAN, a \in BOOLEAN,
        u \in { Null, UpstreamStr(UpstreamOf(40)) },
        rs \in RuleTexts(MaxServed, Outcomes, 0),
        os \in RuleTexts(MaxServed, Outcomes, 60) :
       routers =
         [r \in Routers |->
            IF r = "A"
            THEN NewRouter("r1",
                           [DefaultDoc EXCEPT
                              !.default_upstream = UpstreamStr(UpstreamOf(60)),
                              !.overrides = os],
                           << >>, "redis")
            ELSE NewRouter("r1",
                           [DefaultDoc EXCEPT
                              !.compile_rules = c,
                              !.auto_disable_rules = a,
                              !.default_upstream = u],
                           rs, "redis")]
  /\ store = EmptyStore
  /\ last = Did("init", "A", "ok", routers["A"])
  /\ saved = NotSaved
  /\ IdleRules /\ IdleCall /\ IdleWatch /\ IdleExt

\* A request thread of B enters match_upstream; seen collects the
\* configurations B holds while the call runs.
CallMatchUpstream ==
  /\ call.pc = 0
  /\ call' = [pc |-> 1, kind |-> "run", value |-> None, seen |-> {routers["B"]}]
  /\ UNCHANGED << dynVars, rulesVars, watchVars, extVars >>

\* The thread evaluates the next operand of the `or` chain: it reads the
\* field of the router as it is now and, for overrides and rules, calls
\* match on the Rules it read.  A true value or an error ends the call, and
\* so does the last operand, whatever its value.
EvalOperand ==
  /\ call.pc > 0
  /\ LET f == MatchUpstreamOperands[call.pc]
         B == routers["B"]
     IN  IF f = "default_upstream"
         THEN /\ call' = [call EXCEPT !.pc = 0, !.kind = "return",
                                      !.value = B.default_upstream]
              /\ UNCHANGED routers
         ELSE LET m == Match(B[f], NoneStr)
              IN  /\ routers' = [routers EXCEPT !["B"][f].disabled = m.disabled]
                  /\ call' =
                       IF m.kind = "raise"
                       THEN [call EXCEPT !.pc = 0, !.kind = "raise",
                                         !.value = None]
                       ELSE IF Truthy(m.value)
                       THEN [call EXCEPT !.pc = 0, !.kind = "return",
                                         !.value = m.value]
                       ELSE [call EXCEPT !.pc = @ + 1]
  /\ UNCHANGED << store, last, saved, rulesVars, watchVars, extVars >>

NextMatch ==
  \/ \E r \in Savers : DoSave(r)
  \/ \E r \in Loaders : DoLoad(r)
  \/ CallMatchUpstream
  \/ EvalOperand

SpecMatch == InitMatch /\ [][NextMatch]_vars

\* ------------------------------------------------- redis: save and watch

\* The contents A saves: default_upstream is http://s1, then http://s2, ...
MaxSaves == 3

\* The number of the content a router holds, 0 before the first.
VersionOf(u) == IF u.type = "NoneType" THEN 0 ELSE u.selections[1].server[2]

\* The number of the content of a JSON text.
VersionOfText(doc) ==
  IF doc.default_upstream.type = "null" THEN 0
  ELSE doc.default_upstream.selections[1].server[2]

\* Redis._set publishing before it sets the key.
RedisSetSteps_PublishFirst == << "publish", "set" >>

\* Redis._set after json.dumps: cli.set(key, text), then
\* cli.publish(channel, text).
RedisSetSteps == << "set", "publish" >>

\* Neither router has a value of its file; B does not watch yet.
InitWatch ==
  /\ IdleDyn /\ IdleRules /\ IdleCall /\ IdleWatch /\ IdleExt

\* B.watch(callback): the pubsub subscribes to the channel and its thread
\* runs.
DoWatch ==
  /\ ~sub
  /\ sub' = TRUE
  /\ UNCHANGED << dynVars, rulesVars, call, chan, pend, notified, extVars >>

\* The configuration of A is edited between two saves: the next content.
DoEdit ==
  /\ pend.pc = 0
  /\ VersionOf(routers["A"].default_upstream) < MaxSaves
  /\ routers' = [routers EXCEPT
                   !["A"].default_upstream = UpstreamOf(VersionOf(@) + 1)]
  /\ UNCHANGED << store, last, saved, rulesVars, call, watchVars, extVars >>

\* A.save(), one step of Redis._set: the text is dumped before the first
\* step; redis hands a message to the subscribers of the moment.  A saves
\* what the key does not hold yet.
DoSaveStep ==
  LET text == IF pend.pc = 0 THEN RedisSet(routers["A"], store).blob
              ELSE pend.text
      step == RedisSetSteps[pend.pc + 1]
  IN  /\ pend.pc = 0 => store.blob # text
      /\ IF step = "set"
         THEN /\ store' = [store EXCEPT !.blob = text]
              /\ UNCHANGED << chan, notified >>
         ELSE /\ chan' = IF sub THEN Append(chan, text) ELSE chan
              /\ notified' = IF sub THEN notified \cup {VersionOfText(text.data)}
                             ELSE notified
              /\ UNCHANGED store
      /\ pend' = IF pend.pc = 0 THEN [pc |-> 1, text |-> text]
                 ELSE [pc |-> 0, text |-> Missing]
      /\ UNCHANGED << routers, last, saved, rulesVars, call, sub, extVars >>

\* The thread of B's pubsub handles the next message: callback(router), and
\* the callback loads the router, as rump.wsgi's does.
DoDeliver ==
  /\ chan # << >>
  /\ LET l == Load(routers["B"], store)
     IN  /\ routers' = [routers EXCEPT !["B"] = l.router]
         /\ last' = Did("callback", "B", l.kind, routers["B"])
  /\ chan' = Tail(chan)
  /\ UNCHANGED << store, saved, rulesVars, call, sub, pend, notified, extVars >>

NextWatch ==
  \/ DoWatch
  \/ DoEdit
  \/ DoSaveStep
  \/ DoDeliver

\* The thread started by run_in_thread polls the subscription for as long as
\* it runs: a message that waits is handled.
FairSpecWatch == InitWatch /\ [][NextWatch]_vars /\ WF_vars(DoDeliver)

\* ---------------------------------------------------- connecting a dynamic
\* Router B and its dynamic: connect, disconnect, the `with` block of
\* connect's context manager, load, save and watch, and for etcd the
\* watcher thread that watch starts, one step per statement of its loop.

\* Dynamic.can_connect of the three backends.
CanConnect(router, lk) ==
  IF router.dynamic.type = "zookeeper" THEN lk.root ELSE TRUE

\* Router.is_dynamic
IsDynamic(router, lk) ==
  router.dynamic.type # NoneStr /\ CanConnect(router, lk)

IsConnected_Dynamic(router, lk) == IsDynamic(router, lk)

\* Router.is_connected, with Dynamic.is_connected: _cli is not None.
IsConnected(router, lk) == IsDynamic(router, lk) /\ lk.cli

\* Dynamic.connect.  up is whether the zookeeper client could start before
\* its timeout; the redis and etcd clients are built without a round trip.
DynamicConnect(router, lk, up) ==
  IF router.dynamic.type = "zookeeper" /\ ~up
  THEN [kind |-> "raise", link |-> lk]
  ELSE [kind |-> "ok", link |-> [lk EXCEPT !.cli = TRUE]]

\* Router.connect up to its return statement.
RouterConnect(router, lk, up) ==
  IF ~IsDynamic(router, lk)
  THEN [kind |-> "RouterNotDynamic", link |-> lk]
  ELSE DynamicConnect(router, lk, up)

\* The thread is alive: started, and run has not returned.
IsAlive(lk) == lk.pc \notin {"none", "exit"}

\* Dynamic.disconnect; etcd stops the watcher thread it holds, and stop
\* only clears the thread's callback.
DynamicDisconnect(router, lk) ==
  IF router.dynamic.type = "etcd"
  THEN [lk EXCEPT !.callback = IF lk.thd /\ IsAlive(lk) THEN FALSE ELSE @,
                  !.thd = FALSE,
                  !.cli = FALSE]
  ELSE [lk EXCEPT !.cli = FALSE]

\* Router.disconnect
RouterDisconnect(router, lk) ==
  IF IsConnected(router, lk) THEN DynamicDisconnect(router, lk) ELSE lk

ExitDisconnects_NotOnError(exc) == ~exc

\* Whether the context manager disconnects when the block is left, exc
\* being whether an exception leaves it: the disconnect is in a finally.
ExitDisconnects(exc) == TRUE

\* Router.load, Router.save and Router.watch: what the call does to the
\* router, the store and the dynamic, and whether it reached the backend.
RouterLoad(router, st, lk) ==
  IF ~IsConnected(router, lk)
  THEN [kind |-> "RouterNotConnected", backend |-> FALSE,
        router |-> router, store |-> st, link |-> lk]
  ELSE LET l == Load(router, st)
       IN  [kind |-> l.kind, backend |-> TRUE,
            router |-> l.router, store |-> st, link |-> lk]

RouterSave(router, st, lk) ==
  IF ~IsConnected(router, lk)
  THEN [kind |-> "RouterNotConnected", backend |-> FALSE,
        router |-> router, store |-> st, link |-> lk]
  ELSE LET s == Save(router, st)
       IN  [kind |-> s.kind, backend |-> TRUE,
            router |-> router, store |-> s.store, link |-> lk]

\* Etcd.watch starts a thread that holds the callback and blocks in
\* cli.watch; the subscriptions of the other two backends are left out.
RouterWatch(router, st, lk) ==
  IF ~IsConnected(router, lk)
  THEN [kind |-> "RouterNotConnected", backend |-> FALSE,
        router |-> router, store |-> st, link |-> lk]
  ELSE [kind |-> "ok", backend |-> TRUE, router |-> router, store |-> st,
        link |-> IF router.dynamic.type = "etcd"
                 THEN [lk EXCEPT !.thd = TRUE, !.callback = TRUE,
                                 !.pc = "watch", !.changed = FALSE]
                 ELSE lk]

WatchTimesOut_Never == FALSE

\* Whether cli.watch gives up waiting: the thread passes timeout=None, so
\* the client's read_timeout applies.
WatchTimesOut == TRUE

\* The record of a step: how it ended, whether it reached the backend,
\* whether B was connected when it started, and the router, the store and
\* the dynamic before it.
LinkDid(op, kind, backend) ==
  [op |-> op, who |-> "B", kind |-> kind, backend |-> backend,
   connected |-> IsConnected(routers["B"], link),
   before |-> [router |-> routers["B"], store |-> store, link |-> link]]

\* The dynamics a router is built with, one of them none.
Dynamics == Backends \cup {NoneStr}

InitLink ==
  /\ \E type \in Dynamics :
       routers = [r \in Routers |-> NewRouter("r1", DefaultDoc, << >>, type)]
  /\ \E root \in BOOLEAN : link = NoLink(root)
  /\ store = EmptyStore
  /\ last = [op |-> "init", who |-> "B", kind |-> "ok", backend |-> FALSE,
             connected |-> FALSE,
             before |-> [router |-> routers["B"], store |-> store,
                         link |-> link]]
  /\ saved = NotSaved
  /\ probe = NoProbe
  /\ pick = NoPick
  /\ IdleMore
  /\ IdleRules /\ IdleCall /\ IdleWatch

LinkFrame ==
  UNCHANGED << saved, rulesVars, call, watchVars, probe, pick, served, io >>

\* router.connect(), alone (block false) or as `with router.connect():`.
DoConnect(block, up) ==
  LET c == RouterConnect(routers["B"], link, up)
  IN  /\ ~link.block
      /\ link' = [c.link EXCEPT !.block = block /\ c.kind = "ok",
                                !.linked = @ \/ c.kind = "ok"]
      /\ last' = LinkDid("connect", c.kind, c.kind # "RouterNotDynamic")
      /\ UNCHANGED << routers, store >>
      /\ LinkFrame

\* The `with` block is left, by an exception when exc is true.
DoExit(exc) ==
  /\ link.block
  /\ link' = [(IF ExitDisconnects(exc)
               THEN RouterDisconnect(routers["B"], link)
               ELSE link) EXCEPT !.block = FALSE, !.linked = FALSE]
  /\ last' = LinkDid("exit", IF exc THEN "raise" ELSE "ok", link.cli)
  /\ UNCHANGED << routers, store >>
  /\ LinkFrame

\* router.disconnect()
DoDisconnect ==
  /\ ~link.block
  /\ link' = [RouterDisconnect(routers["B"], link) EXCEPT !.linked = FALSE]
  /\ last' = LinkDid("disconnect", "ok", IsConnected(routers["B"], link))
  /\ UNCHANGED << routers, store >>
  /\ LinkFrame

\* router.load(), router.save() or router.watch(callback) of the main
\* thread; watch once the thread of an earlier watch is gone.
DoCall(op) ==
  LET c == CASE op = "load" -> RouterLoad(routers["B"], store, link)
             [] op = "save" -> RouterSave(routers["B"], store, link)
             [] OTHER       -> RouterWatch(routers["B"], store, link)
  IN  /\ op = "watch" => ~IsAlive(link)
      /\ routers' = [routers EXCEPT !["B"] = c.router]
      /\ store' = c.store
      /\ link' = [c.link EXCEPT
                    !.changed = @ \/ (op = "save" /\ c.kind = "ok")]
      /\ last' = LinkDid(op, c.kind, c.backend)
      /\ LinkFrame

\* Another client writes the watched location.
DoRemoteWrite ==
  /\ ~link.changed
  /\ store' = Written(routers["B"].dynamic.type, routers["B"].name, {})
  /\ link' = [link EXCEPT !.changed = TRUE]
  /\ last' = LinkDid("write", "ok", FALSE)
  /\ UNCHANGED routers
  /\ LinkFrame

\* _WatchThread.run: cli.watch returns, the key having changed or the
\* wait having timed out.
WatchThreadWatch ==
  /\ link.pc = "watch"
  /\ link.changed \/ WatchTimesOut
  /\ link' = [link EXCEPT !.pc = "read", !.changed = FALSE,
                           !.woke = IF link.changed THEN "change"
                                    ELSE "timeout"]
  /\ last' = LinkDid("run", "ok", TRUE)
  /\ UNCHANGED << routers, store >>
  /\ LinkFrame

\* _WatchThread.run: callback = self.callback, and the test of it; a
\* thread without callback is stopped, and its loop ends.
WatchThreadRead ==
  /\ link.pc = "read"
  /\ link' = [link EXCEPT !.pc = IF link.callback THEN "call" ELSE "exit"]
  /\ last' = LinkDid("run", "ok", FALSE)
  /\ UNCHANGED << routers, store >>
  /\ LinkFrame

\* _WatchThread.run: callback(self.router), the callback being the one of
\* rump.wsgi, which loads the router; an exception of it ends the thread,
\* else the loop tests self.stopped.
WatchThreadCallback ==
  LET c == RouterLoad(routers["B"], store, link)
  IN  /\ link.pc = "call"
      /\ routers' = [routers EXCEPT !["B"] = c.router]
      /\ link' = [link EXCEPT !.pc = IF c.kind = "ok" /\ link.callback
                                     THEN "watch" ELSE "exit"]
      /\ last' = LinkDid("callback", c.kind, c.backend)
      /\ UNCHANGED store
      /\ LinkFrame

WatchThreadRun == WatchThreadWatch \/ WatchThreadRead \/ WatchThreadCallback

NextLink ==
  \/ \E block \in BOOLEAN, up \in BOOLEAN : DoConnect(block, up)
  \/ \E exc \in BOOLEAN : DoExit(exc)
  \/ DoDisconnect
  \/ \E op \in {"load", "save", "watch"} : DoCall(op)
  \/ DoRemoteWrite
  \/ WatchThreadWatch
  \/ WatchThreadRead
  \/ WatchThreadCallback

SpecLink == InitLink /\ [][NextLink]_vars

\* The watcher thread is scheduled as long as it can take a step.
FairSpecLink == SpecLink /\ WF_vars(WatchThreadRun)

\* ------------------------------------------- evaluating an expression

InitExp ==
  /\ \E first \in FieldOps \cup Nested : \E q \in RequestsFor(first) :
       probe = [NoProbe EXCEPT !.e = first, !.request = q, !.node = first,
                               !.parsed = first]
  /\ link = NoLink(TRUE)
  /\ pick = NoPick
  /\ IdleMore
  /\ IdleRules /\ IdleDyn /\ IdleCall /\ IdleWatch

ExpFrame ==
  UNCHANGED << rulesVars, dynVars, call, watchVars, link, pick, served, io >>

\* Rule(node, upstream).match(request)
DoRuleMatch ==
  /\ probe' = [probe EXCEPT !.op = "match",
                            !.got = RuleMatches(probe.node, probe.request)]
  /\ ExpFrame

\* Rule(node, upstream).compile().match_context(request.context(symbols))
DoMatchContext ==
  /\ probe' = [probe EXCEPT
                 !.op = "match_context",
                 !.got = CompiledRuleMatches(probe.node, probe.request)]
  /\ ExpFrame

\* node = ~node
DoInvert ==
  /\ probe.flips < MaxFlips
  /\ probe' = [probe EXCEPT !.op = "invert", !.node = Invert(probe.node),
                            !.flips = @ + 1, !.got = Gives(FALSE)]
  /\ ExpFrame

\* parser.for_match(Request)(str(node))
DoParse ==
  /\ probe' = [probe EXCEPT !.op = "parse", !.parsed = Parse(Str(probe.node)),
                            !.got = Gives(FALSE)]
  /\ ExpFrame

NextExp == DoRuleMatch \/ DoMatchContext \/ DoInvert \/ DoParse

SpecExp == InitExp /\ [][NextExp]_vars

\* ---------------------------------------------------- selecting a server

InitUpstream ==
  /\ \E origin \in {"constructor", "parser"} :
       \E sels \in SelectionLists(origin) :
         pick = [NoPick EXCEPT !.u = UpstreamInit(sels), !.origin = origin,
                               !.before = UpstreamInit(sels)]
  /\ link = NoLink(TRUE)
  /\ probe = NoProbe
  /\ IdleMore
  /\ IdleRules /\ IdleDyn /\ IdleCall /\ IdleWatch

UpstreamFrame ==
  UNCHANGED << rulesVars, dynVars, call, watchVars, link, probe, served, io >>

Edited(op, u) ==
  [pick EXCEPT !.u = u, !.op = op, !.edits = @ + 1, !.before = pick.u,
               !.choice = 0, !.got = NoPick.got]

\* upstream[index] = sel
DoSetItem(index, sel) ==
  /\ pick.edits < MaxEdits
  /\ index < Len(pick.u.selections)
  /\ pick' = Edited("setitem", SetItem(pick.u, index, sel))
  /\ UpstreamFrame

\* del upstream[index]
DoDelItem(index) ==
  /\ pick.edits < MaxEdits
  /\ index < Len(pick.u.selections)
  /\ pick' = Edited("delitem", DelItem(pick.u, index))
  /\ UpstreamFrame

\* upstream.insert(index, sel)
DoInsert(index, sel) ==
  /\ pick.edits < MaxEdits
  /\ index <= Len(pick.u.selections)
  /\ Len(pick.u.selections) < MaxSelections
  /\ pick' = Edited("insert", Insert(pick.u, index, sel))
  /\ UpstreamFrame

\* upstream() of an Upstream that is not uniform, with the draw choice:
\* any of 0..total-1, and total as in test_upstream_select_impossible.
DoSelect(choice) ==
  /\ ~pick.u.uniform
  /\ choice <= pick.u.total
  /\ pick' = [pick EXCEPT !.op = "call", !.choice = choice,
                          !.before = pick.u,
                          !.got = Select(pick.u, choice)]
  /\ UpstreamFrame

\* upstream() of a uniform Upstream: random.choice(self).server.
DoChoice(index) ==
  /\ pick.u.uniform
  /\ index < Len(pick.u.selections)
  /\ pick' = [pick EXCEPT !.op = "call", !.choice = index,
                          !.before = pick.u,
                          !.got = [kind |-> "ok",
                                   server |-> pick.u.selections[index + 1].server]]
  /\ UpstreamFrame

NextUpstream ==
  \/ \E index \in 0..MaxSelections, sel \in Selections : DoSetItem(index, sel)
  \/ \E index \in 0..MaxSelections : DoDelItem(index)
  \/ \E index \in 0..MaxSelections, sel \in Selections : DoInsert(index, sel)
  \/ \E choice \in 0..(MaxWeight * MaxSelections) : DoSelect(choice)
  \/ \E index \in 0..MaxSelections : DoChoice(index)

SpecUpstream == InitUpstream /\ [][NextUpstream]_vars

\* Largest number of times the compile flag of a Rules object is changed.
MaxToggles == 1

\* How often the rule objects of a list have been replaced: the objects the
\* g-th replacement makes have the identities g * MaxRules + 1 and up, none
\* of which an object made before it has.
Generation(rs) == IF Len(rs) = 0 THEN 0 ELSE (rs[1].oid - 1) \div MaxRules

\* The compile setter that keeps the objects and changes their class.
SetCompile_InPlace(self, value) ==
  [self EXCEPT !.compile = value,
               !.rules = [k \in 1..Len(self.rules) |->
                            [self.rules[k] EXCEPT
                               !.type = IF value THEN "CompiledRule"
                                        ELSE "Rule"]]]

\* Rules.compile = value: nothing when the flag has the value already;
\* otherwise every self[i] is replaced by a new object, Rule(expression,
\* upstream) or its compiled version, with the expression and the upstream
\* of the old one.  self.disabled is not touched: it keeps the old objects.
SetCompile(self, value) ==
  IF value = self.compile THEN self
  ELSE [self EXCEPT !.compile = value,
                    !.rules = [k \in 1..Len(self.rules) |->
                                 [self.rules[k] EXCEPT
                                    !.oid = @ + MaxRules,
                                    !.type = IF value THEN "CompiledRule"
                                             ELSE "Rule"]]]

\* rules.compile = value
DoSetCompile(value) ==
  /\ value # rules.compile => Generation(rules.rules) < MaxToggles
  /\ rules' = SetCompile(rules, value)
  /\ ret' = Call("compile", IF value THEN "True" ELSE "False", "ok", None,
                 rules.disabled, << >>)
  /\ UNCHANGED << since, dynVars, call, watchVars, extVars >>

\* A Rules object whose rules evaluate without error: it is matched, its
\* rules are disabled and enabled and its compile flag is set.
InitCompile ==
  /\ InitRules
  /\ \A k \in 1..Len(rules.rules) : rules.rules[k].out \in {"true", "false"}

NextCompile ==
  \/ DoMatch(NoneStr)
  \/ \E i \in 0..(MaxRules - 1) : DoDisable(i)
  \/ \E i \in 0..(MaxRules - 1) : DoEnable(i)
  \/ \E value \in BOOLEAN : DoSetCompile(value)

SpecCompile == InitCompile /\ [][NextCompile]_vars

\* ------------------------------------------------- dispatching a request

\* The routers of the settings, in the order of the settings file.
DispatchDocs ==
  { [DefaultDoc EXCEPT !.enabled = e, !.hosts = h, !.default_upstream = u]
    : e \in BOOLEAN, h \in HostPatterns,
      u \in { Null, UpstreamStr(UpstreamOf(10)) } }

InitDispatch ==
  /\ \E first \in DispatchDocs, second \in DispatchDocs,
        rs \in RuleTexts(MaxServed, {"true", "false"}, 0) :
       served = [NoServed EXCEPT
                   !.routers = << NewRouter("r1", first, rs, NoneStr),
                                  NewRouter("r2", second, << >>, NoneStr) >>]
  /\ io = NoIo
  /\ link = NoLink(TRUE) /\ probe = NoProbe /\ pick = NoPick
  /\ IdleRules /\ IdleDyn /\ IdleCall /\ IdleWatch

DispatchFrame ==
  UNCHANGED << rulesVars, dynVars, call, watchVars, link, probe, pick, io >>

\* settings.routers[i].match_me(request), request.host being host
DoMatchMe(i, host) ==
  /\ served' = [served EXCEPT
                  !.host = host, !.op = "match_me", !.index = i,
                  !.kind = "return",
                  !.value = MatchMe(served.routers[i], [host |-> host])]
  /\ DispatchFrame

\* app.router_for(request)
DoRouterFor(host) ==
  /\ served' = [served EXCEPT
                  !.host = host, !.op = "router_for",
                  !.index = RouterFor(served.routers, [host |-> host], 1),
                  !.kind = "return", !.value = None]
  /\ DispatchFrame

\* router.match_upstream(request) on the router that router_for returned
DoMatchUpstream ==
  /\ served.op = "router_for" /\ served.index # 0
  /\ LET m == MatchUpstream(served.routers[served.index])
     IN  served' = [served EXCEPT
                      !.op = "match_upstream", !.kind = m.kind,
                      !.value = m.value,
                      !.routers[served.index] = m.router]
  /\ DispatchFrame

NextDispatch ==
  \/ \E i \in 1..2, host \in HostNames : DoMatchMe(i, host)
  \/ \E host \in HostNames : DoRouterFor(host)
  \/ DoMatchUpstream

SpecDispatch == InitDispatch /\ [][NextDispatch]_vars

\* ------------------------------------------------------ loading rule text

InitLoad ==
  /\ \E rs \in DumpedRules, t \in Texts :
       io = [NoIo EXCEPT !.rules = rs, !.text = t]
  /\ served = NoServed
  /\ link = NoLink(TRUE) /\ probe = NoProbe /\ pick = NoPick
  /\ IdleRules /\ IdleDyn /\ IdleCall /\ IdleWatch

LoadFrame ==
  UNCHANGED << rulesVars, dynVars, call, watchVars, link, probe, pick, served >>

\* Rules().loads(text, strict=strict)
DoLoads(strict) ==
  /\ LET r == RulesLoad(<< >>, io.text, strict)
     IN  io' = [io EXCEPT !.op = "loads", !.strict = strict,
                          !.kind = r.kind, !.loaded = r.rules]
  /\ LoadFrame

\* text = Rules(rules).dumps()
DoDumps ==
  /\ io' = [io EXCEPT !.op = "dumps", !.text = RulesDumps(io.rules),
                      !.dumped = TRUE, !.kind = "ok", !.loaded = << >>]
  /\ LoadFrame

NextLoad == (\E strict \in BOOLEAN : DoLoads(strict)) \/ DoDumps

SpecLoad == InitLoad /\ [][NextLoad]_vars

\* ------------------------------------ assigning flags, invalid remote text

\* Remote content that fails validation: what a client wrote, with a host
\* pattern that is no regular expression or an override that is no rule.
Spoiled(st, field) ==
  IF st.blob.type # "missing"
  THEN [st EXCEPT !.blob.data =
          [f \in DOMAIN st.blob.data \cup {field} |->
             CASE f # field     -> st.blob.data[f]
               [] f = "hosts"   -> << InvalidPattern >>
               [] OTHER         -> << JunkText >>]]
  ELSE IF field = "hosts"
  THEN [st EXCEPT !.config.options =
          [f \in DOMAIN st.config.options \cup {"hosts"} |->
             IF f = "hosts"
             THEN [type |-> "str", parts |-> << InvalidPattern >>]
             ELSE st.config.options[f]]]
  ELSE [st EXCEPT !.overrides = [type |-> "text", lines |-> << JunkText >>]]

\* routers[r].compile_rules = value, or auto_disable_rules: the assignment
\* of a field of the form, which stores the value.
Assign(router, field, value) == [router EXCEPT ![field] = value]

\* routers[r].<field> = value
DoAssign(r, field, value) ==
  /\ routers' = [routers EXCEPT ![r] = Assign(routers[r], field, value)]
  /\ last' = Did("assign", r, "ok", routers[r])
  /\ UNCHANGED << store, saved, rulesVars, call, watchVars, extVars >>

\* A client writes remote content that fails validation in one field, hosts
\* or overrides, and is valid in the other.
DoWriteInvalid(field) ==
  /\ store' = Spoiled(Written(routers["A"].dynamic.type, routers["A"].name,
                              {"hosts", "overrides"} \ {field}), field)
  /\ saved' = NotSaved
  /\ last' = Did("spoil", "A", "ok", routers["A"])
  /\ UNCHANGED << routers, rulesVars, call, watchVars, extVars >>

NextConfig ==
  \/ \E r \in Savers : DoSave(r)
  \/ \E r \in Loaders : DoLoad(r)
  \/ \E field \in {"hosts", "overrides"} : DoWriteInvalid(field)
  \/ \E r \in Loaders, value \in BOOLEAN,
        field \in {"compile_rules", "auto_disable_rules"} :
       DoAssign(r, field, value)

\* A, whose flags vary, saves; B, a local router, loads.
ConfigDocs ==
  { [DefaultDoc EXCEPT !.compile_rules = c, !.auto_disable_rules = a,
                       !.default_upstream = UpstreamStr(UpstreamOf(10)),
                       !.overrides = << RuleText("true", 11) >>]
    : c \in BOOLEAN, a \in BOOLEAN }

InitConfig ==
  /\ \E t \in Backends, a \in ConfigDocs, b \in LocalDocs :
       routers = [r \in Routers |->
                    NewRouter("r1", IF r = "A" THEN a ELSE b, << >>, t)]
  /\ store = EmptyStore
  /\ last = Did("init", "A", "ok", routers["A"])
  /\ saved = NotSaved
  /\ IdleRules /\ IdleCall /\ IdleWatch /\ IdleExt

SpecConfig == InitConfig /\ [][NextConfig]_vars

\* ------------------------------------------- the watcher and invalid text

\* Another client writes content that fails validation to the watched
\* location: its host pattern is no regular expression.
DoRemoteSpoil ==
  /\ ~link.changed
  /\ store' = Spoiled(Written(routers["B"].dynamic.type, routers["B"].name,
                              {"overrides"}), "hosts")
  /\ link' = [link EXCEPT !.changed = TRUE]
  /\ last' = LinkDid("spoil", "ok", FALSE)
  /\ UNCHANGED routers
  /\ LinkFrame

NextLinkErrors == NextLink \/ DoRemoteSpoil

SpecLinkErrors == InitLink /\ [][NextLinkErrors]_vars

\* ------------------------------------- zookeeper: a save and a load race

\* Zookeeper.save: _set_overrides(router), then _set_config(router), each
\* a cli.set of its own node.
ZookeeperSaveSteps == << "overrides", "config" >>

\* The number of the content the overrides of a router hold, 0 when empty.
VersionOfOverrides(R) ==
  IF Len(R.rules) = 0 THEN 0 ELSE VersionOf(R.rules[1].upstream)

\* The content number k of A: its default_upstream and its one override.
Content(router, k) ==
  [router EXCEPT
     !.default_upstream = UpstreamOf(k),
     !.overrides = RulesOf(ParseRules(<< RuleText("true", k) >>),
                           router.compile_rules, router.auto_disable_rules)]

\* A and B are bound to one zookeeper root; A holds its first content.
InitZookeeper ==
  /\ \E c \in BOOLEAN :
       routers = [r \in Routers |->
                    LET made == NewRouter("r1", [DefaultDoc EXCEPT
                                                   !.compile_rules = c],
                                          << >>, "zookeeper")
                    IN  IF r = "A" THEN Content(made, 1) ELSE made]
  /\ store = EmptyStore
  /\ last = Did("init", "A", "ok", routers["A"])
  /\ saved = NotSaved
  /\ IdleRules /\ IdleCall /\ IdleWatch /\ IdleExt

\* The configuration of A is edited between two saves: the next content.
DoEditContent ==
  /\ pend.pc = 0
  /\ VersionOf(routers["A"].default_upstream) < MaxSaves
  /\ routers' = [routers EXCEPT
                   !["A"] = Content(@, VersionOf(@.default_upstream) + 1)]
  /\ last' = Did("edit", "A", "ok", routers["A"])
  /\ UNCHANGED << store, saved, rulesVars, call, watchVars, extVars >>

\* A.save(), one cli.set of Zookeeper.save.
DoZookeeperSaveStep ==
  LET step == ZookeeperSaveSteps[pend.pc + 1]
  IN  /\ store' = IF step = "overrides"
                  THEN ZookeeperSetOverrides(routers["A"], store)
                  ELSE ZookeeperSetConfig(routers["A"], store).store
      /\ pend' = [pend EXCEPT !.pc = (@ + 1) % 2]
      /\ last' = Did("set", "A", "ok", routers["A"])
      /\ UNCHANGED << routers, saved, rulesVars, call, chan, sub, notified,
                      extVars >>

\* B.load(), the first read of Zookeeper._src: _get_config.
DoZookeeperGetConfig ==
  /\ call.pc = 0
  /\ call' = [pc |-> 1, kind |-> "run", value |-> store.config, seen |-> {}]
  /\ last' = Did("get", "B", "ok", routers["B"])
  /\ UNCHANGED << routers, store, saved, rulesVars, watchVars, extVars >>

\* B.load(), the rest: _get_overrides, the mapping of the config read
\* before and of the overrides read now, and router.update.
DoZookeeperLoad ==
  /\ call.pc = 1
  /\ LET l == Load(routers["B"], [store EXCEPT !.config = call.value])
     IN  /\ routers' = [routers EXCEPT !["B"] = l.router]
         /\ last' = Did("load", "B", l.kind, routers["B"])
  /\ call' = NoCall
  /\ UNCHANGED << store, saved, rulesVars, watchVars, extVars >>

NextZookeeper ==
  \/ DoEditContent
  \/ DoZookeeperSaveStep
  \/ DoZookeeperGetConfig
  \/ DoZookeeperLoad

SpecZookeeper == InitZookeeper /\ [][NextZookeeper]_vars

\* ------------------------------------------------------ claims about Rules
\* What the claims say of a match call, stated on the rule list and on the
\* disabled set before the call, independently of the loops above.

\* The last call was a match that ran a loop in error mode m.
MatchedIn(m) ==
  /\ ret.op = "match"
  /\ \/ ret.arg = m
     \/ ret.arg = NoneStr /\ m = "disable" /\ rules.auto_disable
     \/ ret.arg = NoneStr /\ m = "suppress" /\ ~rules.auto_disable

\* The indices of the rules that were not disabled before the call.
EnabledBefore == { k \in 1..Len(rules.rules) : rules.rules[k].oid \notin ret.before }

OutOf(k) == rules.rules[k].out

Least(S) == CHOOSE k \in S : \A j \in S : k <= j

\* The increasing sequence of the elements of a set of indices.
RECURSIVE Ascending(_)
Ascending(S) ==
  IF S = {} THEN << >> ELSE << Least(S) >> \o Ascending(S \ {Least(S)})

\* The enabled rules whose evaluation ends a loop that stops at every
\* outcome of the set stops, and the enabled rules such a loop evaluates.
Stoppers(stops) == { k \in EnabledBefore : OutOf(k) \in stops }

EvaluatedUpTo(stops) ==
  IF Stoppers(stops) = {} THEN EnabledBefore
  ELSE { k \in EnabledBefore : k <= Least(Stoppers(stops)) }

\* C1: when Rules.match returns, it returns the upstream of the earliest
\* rule, in insertion order, that is not disabled and whose expression is
\* true for the request, and None iff there is no such rule; and it does
\* return when no rule evaluated before that one raises.  Compile on or off.
C1_FirstMatch ==
  LET hits == Stoppers({"true"})
  IN  /\ (ret.op = "match" /\ ret.kind = "return") =>
           ret.value = (IF hits = {} THEN None
                        ELSE rules.rules[Least(hits)].upstream)
      /\ ( /\ ret.op = "match"
           /\ ret.arg # "ignore"
           /\ \A k \in EvaluatedUpTo({"true"}) : OutOf(k) \in {"true", "false"} )
         => ret.kind = "return"

\* A compiled Rules returned the upstream of its third rule: the first is
\* true but disabled, the second is false.
C1_Witness ==
  /\ ret.op = "match" /\ ret.kind = "return" /\ rules.compile
  /\ Len(rules.rules) = 3
  /\ ret.before = {1}
  /\ OutOf(1) = "true" /\ OutOf(2) = "false" /\ OutOf(3) = "true"
  /\ ret.value = UpstreamOf(3)

C5_Raise ==
  MatchedIn("raise") =>
    LET all == {"true", "StandardError", "Exception"}
        stop == Stoppers(all)
    IN  /\ rules.disabled = ret.before
        /\ ret.evaluated = Ascending(EvaluatedUpTo(all))
        /\ IF stop # {} /\ OutOf(Least(stop)) # "true"
           THEN ret.kind = "raise" /\ ret.value = OutOf(Least(stop))
           ELSE ret.kind = "return"

\* error='raise': the second rule raised before the third, which is true,
\* was reached; the rule disabled before is the only one disabled.
C5_Witness ==
  /\ ret.op = "match" /\ ret.arg = "raise"
  /\ Len(rules.rules) = 3
  /\ OutOf(2) = "Exception" /\ OutOf(3) = "true"
  /\ ret.before = {1} /\ rules.disabled = {1}
  /\ ret.kind = "raise" /\ ret.value = "Exception"
  /\ ret.evaluated = << 2 >>

\* C6: after any sequence of disable, enable, disable_all and enable_all
\* the disabled set holds exactly the rules disabled and not enabled again
\* since; a match neither evaluates a rule that was disabled nor returns its
\* upstream; disable (and enable) with an index outside the list raises
\* IndexError and leaves the set as it was.
C6_Disabled ==
  /\ rules.disabled = since
  /\ ret.op = "match" =>
       /\ \A n \in 1..Len(ret.evaluated) :
            rules.rules[ret.evaluated[n]].oid \notin ret.before
       /\ ret.kind = "return" =>
            \A k \in 1..Len(rules.rules) :
              rules.rules[k].oid \in ret.before =>
                ret.value # rules.rules[k].upstream
  /\ ret.op \in {"disable", "enable"} =>
       (ret.kind = "IndexError" <=> ret.arg = "out of range")

\* Of three rules the last one stays disabled after another one was
\* disabled and enabled again.
C6_Witness ==
  /\ ret.op = "enable" /\ ret.kind = "ok"
  /\ Len(rules.rules) = 3
  /\ rules.disabled = {3}

\* ------------------------------------------- claims about load and save

\* Whether the remote location holds no value of the dynamic field f for a
\* router: no key or no such key in the JSON text (redis, etcd); no node, no
\* section of the router or no such option in the config node, no overrides
\* node (zookeeper).
AbsentRemote(f, router) ==
  IF router.dynamic.type = "zookeeper"
  THEN IF f = "overrides" THEN store.overrides.type = "missing"
       ELSE \/ store.config.type = "missing"
            \/ store.config.section # router.name
            \/ f \notin DOMAIN store.config.options
  ELSE \/ store.blob.type = "missing"
       \/ f \notin DOMAIN store.blob.data

\* Equality of two values of a field, as Python's == has it.
FieldEq(f, x, y) == IF f = "overrides" THEN RulesEq(x, y) ELSE x = y

\* C8: a load, whatever the remote content and however it ends, leaves
\* name, request_type, rules and dynamic of the router as they were, gives
\* it no other field, and leaves every dynamic field the remote content has
\* no value for equal to its local value before the load.
C8_LoadFrame ==
  last.op = "load" =>
    LET after == routers[last.who]
        before == last.before
    IN  /\ DOMAIN after = DOMAIN before
        /\ \A f \in StaticFields : after[f] = before[f]
        /\ \A f \in DynamicFields :
             AbsentRemote(f, before) => FieldEq(f, after[f], before[f])

\* A load from a redis key whose JSON text holds enabled and hosts, and a
\* name and rules that are not the router's: enabled and hosts are replaced,
\* default_upstream and the override are the local ones, the name is kept.
C8_Witness ==
  /\ last.op = "load" /\ last.kind = "ok"
  /\ last.before.dynamic.type = "redis"
  /\ store.blob.type = "json"
  /\ DOMAIN store.blob.data = {"enabled", "hosts", "name", "rules"}
  /\ last.before.enabled /\ ~routers[last.who].enabled
  /\ routers[last.who].hosts = << Regex("^c") >>
  /\ routers[last.who].name = "r1"
  /\ routers[last.who].rules.rules = << >>
  /\ routers[last.who].default_upstream = UpstreamOf(10)
  /\ Len(routers[last.who].overrides.rules) = 1

\* C9 as claimed: for every backend, a load that follows a save of another
\* router bound to the same location succeeds and makes every dynamic field
\* of the loading router equal to the value saved, whatever its local values
\* were.
C9_RoundTrip ==
  (last.op = "load" /\ saved.ok) =>
    /\ last.kind = "ok"
    /\ \A f \in DynamicFields :
         FieldEq(f, routers[last.who][f], saved.dynamic[f])

\* The same for redis and etcd only, where it holds.
C9_RoundTripJson ==
  (last.op = "load" /\ saved.ok /\ last.before.dynamic.type # "zookeeper") =>
    /\ last.kind = "ok"
    /\ \A f \in DynamicFields :
         FieldEq(f, routers[last.who][f], saved.dynamic[f])

\* zookeeper: A saved no override and B, which loaded after it, still has
\* its local one.
C9_Witness ==
  /\ last.op = "load" /\ last.kind = "ok" /\ saved.ok
  /\ last.before.dynamic.type = "zookeeper"
  /\ routers["A"].overrides.rules = << >>
  /\ Len(routers["B"].overrides.rules) = 1

\* ------------------------------------------- claims about match_upstream

\* The upstream of the first rule of a Rules that is not disabled and whose
\* expression is true for the request, None when there is none.
HitOf(R) ==
  LET hits == { k \in 1..Len(R.rules) :
                  R.rules[k].oid \notin R.disabled /\ R.rules[k].out = "true" }
  IN  IF hits = {} THEN None ELSE R.rules[Least(hits)].upstream

\* What match_upstream is to return for a router in configuration c.
Expected(c) ==
  IF HitOf(c.overrides) # None THEN HitOf(c.overrides)
  ELSE IF HitOf(c.rules) # None THEN HitOf(c.rules)
  ELSE c.default_upstream

\* C2: a match_upstream call during which the router holds one
\* configuration returns, when it returns, the first match of the overrides
\* if there is one, otherwise the first match of the rules if there is one,
\* otherwise default_upstream; it raises only the StandardError of a rule.
C2_Precedence ==
  (call.pc = 0 /\ Cardinality(call.seen) = 1) =>
    \A c \in call.seen :
      /\ call.kind = "return" => call.value = Expected(c)
      /\ call.kind = "raise" =>
           \E f \in {"overrides", "rules"} : \E k \in 1..Len(c[f].rules) :
             /\ c[f].rules[k].out = "StandardError"
             /\ c[f].rules[k].oid \notin c[f].disabled

\* The request matches an override and a rule, and the call returned the
\* upstream of the override.
C2_Witness ==
  /\ call.pc = 0 /\ call.kind = "return" /\ Cardinality(call.seen) = 1
  /\ \A c \in call.seen :
       /\ HitOf(c.overrides) = UpstreamOf(61)
       /\ HitOf(c.rules) = UpstreamOf(1)
  /\ call.value = UpstreamOf(61)

\* C7 as claimed: what a match_upstream call returns is what one of the
\* configurations the router held during the call gives, the one before a
\* load or the one after it.
C7_OneConfiguration ==
  (call.pc = 0 /\ call.kind = "return") =>
    \E c \in call.seen : call.value = Expected(c)

\* A call that found no override and no rule before the load, and returned
\* the default_upstream of after it, where an override matches.
C7_Witness ==
  /\ call.pc = 0 /\ call.kind = "return" /\ Cardinality(call.seen) = 2
  /\ call.value = UpstreamOf(60)
  /\ \A c \in call.seen : Expected(c) # UpstreamOf(60)

\* ---------------------------------------------------- claims about watch

\* C10: every save published while the router watches is eventually
\* followed by an invocation of the callback after which the router, loaded
\* in the callback, holds the content of that save or of a later one.
C10_WatcherLiveness ==
  \A n \in 1..MaxSaves :
    (n \in notified) ~>
      (last.op = "callback" /\ VersionOf(routers["B"].default_upstream) >= n)

\* Every content was saved while B watched, every message is handled, and B
\* holds the last content.
C10_Witness ==
  /\ notified = 1..MaxSaves
  /\ chan = << >>
  /\ last.op = "callback" /\ last.kind = "ok"
  /\ VersionOf(routers["B"].default_upstream) = MaxSaves
  /\ VersionOf(last.before.default_upstream) < MaxSaves

\* ------------------------------------------- claims about the connection

\* The last step was router.load(), router.save() or router.watch(cb)
\* of the main thread.
Called == last.op \in {"load", "save", "watch"}

\* C11: load, save and watch called while the router is not connected (no
\* connect returned, or disconnect was called since) each raise
\* RouterNotConnected, do not reach the backend, and leave the router, the
\* remote store and the dynamic as they were; called between a connect and
\* the next disconnect they are accepted and reach the backend.
C11_NotConnected ==
  Called =>
    IF last.before.link.linked
    THEN last.kind # "RouterNotConnected" /\ last.backend
    ELSE /\ last.kind = "RouterNotConnected"
         /\ ~last.backend
         /\ routers["B"] = last.before.router
         /\ store = last.before.store
         /\ link = last.before.link

\* A call is refused on a router that has a dynamic and had saved to the
\* store while it was connected.
C11_Witness ==
  /\ Called
  /\ last.kind = "RouterNotConnected"
  /\ routers["B"].dynamic.type # NoneStr
  /\ store # EmptyStore

\* router.is_connected of B now.
Connected == IsConnected(routers["B"], link)

\* B as it was before the last step has no dynamic, or one that cannot
\* connect.
Unconnectable ==
  \/ last.before.router.dynamic.type = NoneStr
  \/ last.before.router.dynamic.type = "zookeeper" /\ ~last.before.link.root

\* The last step left the router, the store and the dynamic as they were.
Untouched ==
  /\ routers["B"] = last.before.router
  /\ store = last.before.store
  /\ link = last.before.link

\* C12: a router is not connected when built, is connected inside
\* `with router.connect():`, and is not connected once the block is left,
\* by an exception or not; connect on a router without dynamic, or whose
\* backend cannot connect, raises RouterNotDynamic and leaves it not
\* connected; disconnect leaves it not connected, and does nothing when it
\* was not connected.
C12_LinkStates ==
  /\ last.op = "init" => ~Connected
  /\ link.block => Connected
  /\ last.op = "exit" => ~Connected
  /\ last.op = "connect" =>
       IF Unconnectable
       THEN last.kind = "RouterNotDynamic" /\ ~Connected /\ Untouched
       ELSE /\ last.kind # "RouterNotDynamic"
            /\ last.kind = "ok" => Connected
  /\ last.op = "disconnect" =>
       /\ ~Connected
       /\ ~last.connected => Untouched

\* A block that was entered connected is left by an exception.
C12_Witness ==
  /\ last.op = "exit"
  /\ last.kind = "raise"
  /\ last.connected
  /\ last.before.link.block

\* C13: every invocation of the watch callback by the watcher thread
\* starts while the router is connected, none starts after disconnect
\* returned, and the load the callback does never fails with
\* RouterNotConnected.
C13_ConnectedCallbacks ==
  last.op = "callback" =>
    /\ last.connected
    /\ last.before.link.linked
    /\ last.kind # "RouterNotConnected"

\* The watcher thread invokes the callback of a connected router.
C13_Witness ==
  /\ last.op = "callback"
  /\ last.connected
  /\ last.kind = "ok"

\* The last step disconnected a router whose watcher thread was running.
DisconnectedWatching ==
  /\ last.op \in {"disconnect", "exit"}
  /\ last.connected
  /\ last.before.link.thd
  /\ IsAlive(last.before.link)

C15_CompileEquivalence ==
  probe.op = "match_context" =>
    probe.got = RuleMatches(probe.node, probe.request)

\* The same for the expressions whose compiled text Python evaluates as
\* the interpreter does: no ordering or containment test of a null value,
\* no match, no empty string before startswith or endswith, and no Or as
\* right child of an And.
RECURSIVE CompilesFaithfully(_, _)
CompilesFaithfully(node, request) ==
  IF node.type = "BoolOp"
  THEN /\ ~(node.cls = "And" /\ node.rhs.type = "BoolOp"
            /\ node.rhs.cls = "Or")
       /\ CompilesFaithfully(node.lhs, request)
       /\ CompilesFaithfully(node.rhs, request)
  ELSE /\ node.cls # "FieldMatch" \/ request[node.field].null
       /\ node.cls \in {"FieldLessThan", "FieldLessThanEqual",
                        "FieldContains"}
            => ~request[node.field].null
       /\ node.cls \in {"FieldStartswith", "FieldEndswith"}
            => request[node.field].v # << >> \/ request[node.field].null

C15_CompileEquivalenceWhereFaithful ==
  probe.op = "match_context" /\ CompilesFaithfully(probe.node, probe.request)
    => probe.got = RuleMatches(probe.node, probe.request)

\* A compiled And whose left child is an Or matches as the interpreted
\* one does.
C15_Witness ==
  /\ probe.op = "match_context"
  /\ probe.node.type = "BoolOp"
  /\ probe.node.cls = "And"
  /\ probe.node.lhs.type = "BoolOp"
  /\ probe.node.lhs.cls = "Or"
  /\ probe.got = Gives(TRUE)
  /\ probe.got = RuleMatches(probe.node, probe.request)

\* The last step evaluated a FieldOp on a request whose field is None.
EvaluatedOnNull ==
  /\ probe.op = "match"
  /\ probe.node.type = "FieldOp"
  /\ probe.node.cls # "Boolean"
  /\ probe.request[probe.node.field].null

\* C16: evaluating a FieldOp whose field value is null does not raise and
\* gives: for = whether the literal is null, for != whether the literal
\* is not null, for <, <=, >, >=, startswith, endswith, match, in and
\* contains false; and the negation of that when the inv flag is set.
C16_NullDefaults ==
  EvaluatedOnNull =>
    /\ probe.got.kind = "ok"
    /\ probe.got.v =
         ( (CASE probe.node.cls = "FieldEqual"    -> probe.node.null
              [] probe.node.cls = "FieldNotEqual" -> ~probe.node.null
              [] OTHER                            -> FALSE)
           # probe.node.inv )

\* An inverted `in` is evaluated on a null field, and is true.
C16_Witness ==
  /\ EvaluatedOnNull
  /\ probe.node.cls = "FieldIn"
  /\ probe.node.inv
  /\ probe.got = Gives(TRUE)

\* C17: parsing the printed form of an expression gives back the
\* expression, grouped as it was: a BoolOp child of lower precedence than
\* its parent is printed in parentheses on either side, so And(a, Or(b, c))
\* does not print as Or(And(a, b), c) does.
C17_PrintParse ==
  probe.op = "parse" =>
    /\ probe.parsed = probe.node
    /\ ( probe.node.type = "BoolOp" /\ probe.node.cls = "And"
         /\ probe.node.rhs.type = "BoolOp" /\ probe.node.rhs.cls = "Or" )
         => Str(probe.node) #
              Str(BoolOp("Or", BoolOp("And", probe.node.lhs,
                                      probe.node.rhs.lhs),
                         probe.node.rhs.rhs))

\* The printed form of And(a, Or(b, c)) is read as Or(And(a, b), c), which
\* matches a request that the expression printed does not match.
C17_Witness ==
  /\ probe.op = "parse"
  /\ probe.node.type = "BoolOp"
  /\ probe.node.cls = "And"
  /\ probe.node.rhs.type = "BoolOp"
  /\ probe.node.rhs.cls = "Or"
  /\ probe.parsed = BoolOp("Or", BoolOp("And", probe.node.lhs,
                                        probe.node.rhs.lhs),
                           probe.node.rhs.rhs)
  /\ RuleMatches(probe.parsed, probe.request).v
  /\ ~RuleMatches(probe.node, probe.request).v

\* The expressions that do print and parse back as they are: no BoolOp as
\* right child of a BoolOp.
C17_PrintParseLeftNested ==
  probe.op = "parse"
    /\ (probe.node.type = "BoolOp" => probe.node.rhs.type = "FieldOp")
    => probe.parsed = probe.node

\* C18: an expression inverted twice is the expression again (the same
\* tree, hence the same printed form, which is what == compares), and an
\* expression inverted once evaluates to the negation of what the
\* expression evaluates to, on every request, null field values
\* included, for And, Or, every class of FieldOp and the bare boolean
\* field.
C18_InvertInvolution ==
  /\ probe.flips > 0 /\ probe.flips % 2 = 0 =>
       probe.node = probe.e /\ Str(probe.node) = Str(probe.e)
  /\ probe.op = "match" /\ probe.flips % 2 = 1 =>
       /\ probe.got.kind = "ok"
       /\ probe.got.v = ~RuleMatches(probe.e, probe.request).v

\* The inverse of an And with a nested Or is evaluated on a request whose
\* integer field is null, and matches.
C18_Witness ==
  /\ probe.op = "match"
  /\ probe.flips = 1
  /\ probe.e.type = "BoolOp"
  /\ probe.e.cls = "And"
  /\ probe.e.rhs.type = "BoolOp"
  /\ probe.node.cls = "Or"
  /\ probe.request.n.null
  /\ probe.got = Gives(TRUE)

\* ------------------------------------------------- claims about Upstream

\* The positions of the selections whose cumulative weight, in insertion
\* order, exceeds r.
Exceeding(sels, r) ==
  { j \in 1..Len(sels) : SumWeights(SubSeq(sels, 1, j)) > r }

\* The call returned the server of the first selection whose cumulative
\* weight exceeds the draw.
ReturnedFirstExceeding ==
  /\ pick.got.kind = "ok"
  /\ \E j \in Exceeding(pick.before.selections, pick.choice) :
       /\ \A h \in Exceeding(pick.before.selections, pick.choice) : j <= h
       /\ pick.got.server = pick.before.selections[j].server

\* C19: calling an Upstream that is not uniform with a draw r, 0 <= r <
\* total, returns the server of the first selection, in insertion order,
\* whose cumulative weight exceeds r, and does not raise; with the draw
\* r = total it finds no server and raises.
C19_WeightedSelect ==
  pick.op = "call" /\ ~pick.before.uniform =>
    IF pick.choice < pick.before.total
    THEN ReturnedFirstExceeding
    ELSE pick.got.kind = "raise"

\* The same for an Upstream as its constructor or the parser left it.
C19_WeightedSelectAsBuilt ==
  pick.op = "call" /\ ~pick.before.uniform /\ pick.edits = 0 =>
    IF pick.choice < pick.before.total
    THEN ReturnedFirstExceeding
    ELSE pick.got.kind = "raise"

\* A parsed Upstream of two weights gives its second server for a draw
\* that the first weight does not exceed.
C19_Witness ==
  /\ pick.op = "call"
  /\ pick.origin = "parser"
  /\ pick.edits = 0
  /\ ~pick.before.uniform
  /\ Len(pick.before.selections) = 2
  /\ pick.before.selections[1].weight = 1
  /\ pick.choice = 1
  /\ pick.got = [kind |-> "ok", server |-> pick.before.selections[2].server]

\* C20: every Upstream, as built by the constructor or the parser and
\* after item assignment, deletion or insert, is not empty, has weights of
\* 1 at least, has total equal to the sum of its weights, and has uniform
\* true exactly when all its weights are equal.
C20_UpstreamInvariant ==
  LET sels == pick.u.selections
  IN  /\ sels # << >>
      /\ \A j \in 1..Len(sels) : sels[j].weight >= 1
      /\ pick.u.total = SumWeights(sels)
      /\ pick.u.uniform <=>
           \A j \in 1..Len(sels), h \in 1..Len(sels) :
             sels[j].weight = sels[h].weight

\* What does hold: total and uniform are those of the list the Upstream
\* was built with.
C20_DerivedAsBuilt ==
  LET sels == pick.u.selections
  IN  pick.edits = 0 =>
        /\ pick.u.total = SumWeights(sels)
        /\ sels # << >> =>
             ( pick.u.uniform <=>
                 \A j \in 1..Len(sels), h \in 1..Len(sels) :
                   sels[j].weight = sels[h].weight )

\* A parsed Upstream with weights of 1 at least loses a selection, and its
\* total is no longer the sum of its weights.
C20_Witness ==
  /\ pick.op = "delitem"
  /\ pick.origin = "parser"
  /\ \A j \in 1..Len(pick.before.selections) :
       pick.before.selections[j].weight >= 1
  /\ pick.u.selections # << >>
  /\ pick.u.total # SumWeights(pick.u.selections)

\* -------------------------------------------- claims about the match loop

\* The enabled rule a loop that is at index k evaluates next, 0 when no rule
\* is left.
EnabledAfter(k) ==
  LET later == { j \in EnabledBefore : j > k }
  IN  IF later = {} THEN 0 ELSE Least(later)

\* The call evaluated its rules at most once each and in insertion order.
EvaluatedInOrder ==
  \A p \in 1..Len(ret.evaluated) :
    /\ ret.evaluated[p] \in EnabledBefore
    /\ p > 1 => ret.evaluated[p - 1] < ret.evaluated[p]

\* After the evaluation at position p of the call raised one of the errors
\* of the set errors, the loop went on with the next enabled rule.
ResumedAfter(errors) ==
  \A p \in 1..Len(ret.evaluated) :
    LET k == ret.evaluated[p]
    IN  (OutOf(k) \in errors /\ EnabledAfter(k) # 0) =>
          /\ p < Len(ret.evaluated)
          /\ ret.evaluated[p + 1] = EnabledAfter(k)

C26_ToggleKeepsDisabled ==
  [][ ret'.op = "compile" =>
        \A k \in 1..Len(rules.rules) :
          rules.rules[k].oid \in rules.disabled =>
            rules'.rules[k].oid \in rules'.disabled ]_vars

\* A match evaluated the rule at an index whose rule was disabled before
\* the compile flag changed and was never enabled since: the set still
\* holds the object the setter replaced.
C26_Witness ==
  /\ ret.op = "match"
  /\ \E p \in 1..Len(ret.evaluated) :
       LET k == ret.evaluated[p]
       IN  /\ rules.rules[k].oid > MaxRules
           /\ rules.rules[k].oid - MaxRules \in ret.before

\* ------------------------------------------------- claims about dispatch

\* The routers of the settings one of whose host patterns matches the
\* start of the host of the request.
Matching ==
  { i \in 1..Len(served.routers) :
      \E k \in 1..Len(served.routers[i].hosts) :
        LET pattern == served.routers[i].hosts[k].pattern
        IN  /\ Len(pattern) <= Len(served.host)
            /\ \A j \in 1..Len(pattern) :
                 pattern[j] = "." \/ pattern[j] = served.host[j] }

C30_DisabledNeverSelected ==
  /\ (served.op = "match_me" /\ ~served.routers[served.index].enabled)
       => served.value = None
  /\ (served.op = "router_for" /\ served.index # 0)
       => served.routers[served.index].enabled
  /\ (served.op = "match_upstream" /\ ~served.routers[served.index].enabled)
       => served.value = None

\* router_for returned the first router, whose enabled is false, and
\* match_upstream returned the upstream of its rule.
C30_Witness ==
  /\ served.op = "match_upstream" /\ served.index = 1
  /\ ~served.routers[1].enabled
  /\ served.kind = "return" /\ served.value = UpstreamOf(1)

\* ------------------------------------------- claims about loading rules

\* The indices of the lines of the loaded text that hold a rule, and of
\* those that hold junk.
RuleLines == { k \in 1..Len(io.text) : io.text[k].body.type = "rule" }

JunkLines == { k \in 1..Len(io.text) : io.text[k].body.type = "junk" }

\* The rules of the lines of a set, in the order of the text.
RulesOfLines(S) ==
  LET order == Ascending(S)
  IN  [p \in 1..Len(order) |-> ParseLine(io.text[order[p]].body).rule]

\* The part of C22 about the lines: load appends one rule for each line
\* that parses, in input order, and passes over blank lines and comments;
\* not strict, it passes over a line that does not parse and loads the
\* lines after it; strict, it raises ParseException at the first such line.
C22_LoadsLines ==
  io.op = "loads" =>
    IF io.strict /\ JunkLines # {}
    THEN /\ io.kind = "ParseException"
         /\ io.loaded = RulesOfLines({ k \in RuleLines : k < Least(JunkLines) })
    ELSE /\ io.kind = "ok"
         /\ io.loaded = RulesOfLines(RuleLines)

\* The part of C22 about dumps, with equality as Rules.__eq__ computes it:
\* the rules loaded from the text of dumps print as the original ones and
\* have their upstreams.
C22_DumpsLoadsPrinted ==
  (io.op = "loads" /\ io.dumped) =>
    io.kind = "ok" /\ RulesPyEq(io.loaded, io.rules)

\* C22: what C22_LoadsLines says, and loading the text that dumps produced
\* gives the rules that were dumped: the same expressions with the same
\* upstreams, in the same order.
C22_LoadsDumps ==
  /\ C22_LoadsLines
  /\ (io.op = "loads" /\ io.dumped) => (io.kind = "ok" /\ io.loaded = io.rules)

\* A rule was dumped and loaded again, and there is a request on which the
\* original and the loaded rule differ: only one of them matches it.
C22_Witness ==
  /\ io.op = "loads" /\ io.dumped /\ io.kind = "ok"
  /\ Len(io.loaded) = Len(io.rules)
  /\ RulesPyEq(io.loaded, io.rules)
  /\ \E k \in 1..Len(io.rules) : \E q \in Requests :
       /\ Evaluate(io.rules[k].expression, q) = Gives(FALSE)
       /\ Evaluate(io.loaded[k].expression, q) = Gives(TRUE)

\* ----------------------------------------------- claims about the watcher

\* C24: the watcher calls the callback only after the watched key was
\* written: a watch that was only registered, or whose wait timed out with
\* no change, calls nothing.
C24_CallbackOnlyOnChange ==
  last.op = "callback" => link.woke = "change"

\* The thread called the callback on a key nobody ever wrote: its wait had
\* timed out.
C24_Witness ==
  /\ last.op = "callback" /\ last.kind = "ok"
  /\ link.woke = "timeout"
  /\ store = EmptyStore

\* C25: an error inside the watcher, the callback raising for one, does not
\* end the watch: a watcher thread that nobody stopped keeps running.
C25_WatcherSurvivesErrors ==
  (link.thd /\ link.callback) => link.pc # "exit"

\* The callback raised, and the thread, which nobody stopped, is gone.
C25_Witness ==
  /\ last.op = "callback" /\ last.kind # "ok"
  /\ link.thd /\ link.callback /\ link.cli
  /\ link.pc = "exit"

\* ------------------------------------ claims about the flags and the load

\* C27: in every state of a router, after construction, after an
\* assignment of compile_rules or auto_disable_rules and after a load,
\* rules.compile and overrides.compile equal compile_rules, and
\* rules.auto_disable and overrides.auto_disable equal auto_disable_rules.
C27_FlagsInSync ==
  \A r \in Routers :
    /\ routers[r].rules.compile = routers[r].compile_rules
    /\ routers[r].overrides.compile = routers[r].compile_rules
    /\ routers[r].rules.auto_disable = routers[r].auto_disable_rules
    /\ routers[r].overrides.auto_disable = routers[r].auto_disable_rules

\* C27 for a router as its constructor left it.
C27_FlagsInSyncAsBuilt ==
  last.op = "init" => C27_FlagsInSync

\* A load of valid content changed compile_rules of B: overrides was built
\* anew with the flag, rules still has the old one.
C27_Witness ==
  /\ last.op = "load" /\ last.kind = "ok"
  /\ routers["B"].compile_rules # last.before.compile_rules
  /\ routers["B"].overrides.compile = routers["B"].compile_rules
  /\ routers["B"].rules.compile # routers["B"].compile_rules

\* Whether the remote content a load of router reads fails validation: a
\* host pattern that is no regular expression, an override that is no rule.
FailsValidation(router, st) ==
  IF router.dynamic.type = "zookeeper"
  THEN \/ /\ st.config.type # "missing"
          /\ st.config.section = router.name
          /\ "hosts" \in DOMAIN st.config.options
          /\ \E k \in 1..Len(st.config.options.hosts.parts) :
               st.config.options.hosts.parts[k] = InvalidPattern
       \/ /\ st.overrides.type # "missing"
          /\ \E k \in 1..Len(st.overrides.lines) :
               st.overrides.lines[k] = JunkText
  ELSE /\ st.blob.type # "missing"
       /\ \/ /\ "hosts" \in DOMAIN st.blob.data
             /\ \E k \in 1..Len(st.blob.data.hosts) :
                  st.blob.data.hosts[k] = InvalidPattern
          \/ /\ "overrides" \in DOMAIN st.blob.data
             /\ \E k \in 1..Len(st.blob.data.overrides) :
                  st.blob.data.overrides[k] = JunkText

\* C28: a load of remote content that fails validation raises, and every
\* field of the router is what it was before the call.
C28_FailedLoadKeepsRouter ==
  \A r \in Loaders :
    (last.op = "load" /\ last.who = r /\ FailsValidation(last.before, store))
      => /\ last.kind = "raise"
         /\ routers[r] = last.before

\* B, a router with no default left, loaded content whose host pattern is
\* no regular expression and that holds a valid override: the load raised
\* and B has its own overrides still.
C28_Witness ==
  /\ last.op = "load" /\ last.who = "B" /\ last.kind = "raise"
  /\ FailsValidation(last.before, store)
  /\ routers["B"].dynamic.type = "redis"
  /\ store.blob.data.hosts = << InvalidPattern >>
  /\ "overrides" \in DOMAIN store.blob.data
  /\ store.blob.data.overrides # << JunkText >>
  /\ routers["B"] = last.before
  /\ routers["B"].hosts = << Regex("^b") >>

\* ------------------------------------------ claims about zookeeper saves

\* C29: a load that runs while A saves never applies a mix of two saves:
\* when the overrides and the settings B holds after a load were both
\* saved, one save wrote both.
C29_OneSave ==
  (last.op = "load" /\ last.kind = "ok")
    => \/ VersionOf(routers["B"].default_upstream) = 0
       \/ VersionOfOverrides(routers["B"].overrides) = 0
       \/ VersionOf(routers["B"].default_upstream)
            = VersionOfOverrides(routers["B"].overrides)

\* B loaded between the two writes of A's second save: it holds the
\* overrides of the second save and the default_upstream of the first.
C29_Witness ==
  /\ last.op = "load" /\ last.kind = "ok"
  /\ pend.pc = 1
  /\ VersionOf(routers["B"].default_upstream) = 1
  /\ VersionOfOverrides(routers["B"].overrides) = 2
====
